---- MODULE Spec2Model ----
(***************************************************************************)
(* Verification model of the cogman-gate control core: the Trace Lifecycle *)
(* manager (perception/trajectory_builder.py), the Admission Gate          *)
(* (gate/gatecore.py, gate/decision_gate.py, bridge/kernel_bridge.py), the *)
(* Admission Adapter (runtime/gatecore_adapter.py) and the Phase Sequencer *)
(* (runtime/main_loop.py, runtime/error_handler.py).                       *)
(*                                                                         *)
(* Real numbers are carried as integers in millionths (0.85 is 850000).    *)
(* Timestamps are readings of a non-decreasing integer clock.              *)
(***************************************************************************)
EXTENDS Integers, Sequences, FiniteSets, TLC

VARIABLES
    clock,          \* last value returned by time.time()
    nextId,         \* number of uuid4() identifiers handed out
    pool,           \* the Trace value the caller of the trace API holds (at most one)
    last,           \* the last call on the trace API and what the caller got
    gate_traces,    \* GateTrace.traces of the GateCore
    config,         \* GatePolicy.config of the GateCore
    library,        \* KernelBridge.library is loaded
    admission,      \* the last admit / admit_with_trace call and its result
    running,        \* RuntimeLoop.running
    current_phase,  \* RuntimeLoop.current_phase
    pc,             \* position of the thread executing RuntimeLoop.run
    cyc,            \* the locals of the cycle in progress and its invoked handlers
    error_history,  \* RuntimeErrorHandler.error_history
    error_count,    \* RuntimeErrorHandler.error_count
    cycles,         \* number of cycles started by run()
    modules,        \* which collaborators the RuntimeLoop was constructed with
    pending,        \* number of inputs queued for the loop
    router,         \* the WMController as constructed: gatecore, memory_fields, config
    routing,        \* the last call of WMController.process and its output
    probe,          \* the first routing of the WMController: its inputs and outputs
    stopped,        \* RuntimeLoop.stop has been called
    handling,       \* the last call a client made on the RuntimeErrorHandler and its result
    handled,        \* number of handle_error calls since the last clear_history
    post_processor, \* the PostProcessor of the loop: "none", "sync" or "async"
    async_queue,    \* PostProcessor.async_queue: the items not yet taken by the worker
    unfinished_tasks, \* Queue.unfinished_tasks of the async_queue
    worker,         \* position of the thread executing _async_worker and its item
    post_log,       \* what post-processing did, in order: items put, taken up, handled
    joiner          \* position of the thread calling PostProcessor.shutdown

vars == <<clock, nextId, pool, last, gate_traces, config, library, admission,
          running, current_phase, pc, cyc, error_history, error_count, cycles,
          modules, pending, router, routing, probe, stopped, handling, handled,
          post_processor, async_queue, unfinished_tasks, worker, post_log, joiner>>

routerVars == <<router, routing, probe>>
errVars == <<handling, handled>>
postVars == <<post_processor, async_queue, unfinished_tasks, worker, post_log, joiner>>
traceVars == <<pool, last>>
gateVars  == <<gate_traces, config, library, admission>>
loopVars  == <<running, current_phase, pc, cyc, error_history, error_count, cycles,
               modules, pending, routerVars, stopped, errVars, postVars>>

-----------------------------------------------------------------------------
(* Bounds of the model *)

MaxClock == 1
MaxIds   == 2
MaxAdmits == 1
MaxCycles == 2
MaxPending == 1
MaxHandles == 2

-----------------------------------------------------------------------------
(* Python helpers *)

\* dict.get(key, default)
Get(d, k, default) == IF k \in DOMAIN d THEN d[k] ELSE default

\* dict.update(other): keys of other replace or extend those of d
Update(d, e) == [k \in (DOMAIN d) \cup (DOMAIN e) |-> IF k \in DOMAIN e THEN e[k] ELSE d[k]]

\* Optional values are sequences of length 0 (None) or 1
None == <<>>
Some(v) == <<v>>

\* the readings time.time() can return after the reading t
Readings(t) == {u \in t..(t + 1) : u <= MaxClock}

\* str(uuid.uuid4()): a fresh identifier
Uuid(n) == n + 1

-----------------------------------------------------------------------------
(* Trace lifecycle: perception/trajectory_builder.py *)

States == {"CREATED", "ACTIVE", "BLOCKED", "COMPLETED", "INVALID", "ARCHIVED"}

Origins ==
    { [source_id |-> "external", modality |-> "text", adapter |-> "sensory"],
      [adapter |-> "default"] }

Contexts == { [gate_profile |-> "default", runtime_mode |-> "normal"] }

\* TrajectoryBuilder.create_trace
create_trace(origin, context, trace_id, created_at) ==
    [ trace_id      |-> trace_id,
      state         |-> "CREATED",
      created_at    |-> created_at,
      closed_at     |-> None,
      origin        |-> origin,
      context       |-> context,
      lifecycle_log |-> << [ event     |-> "TRACE_CREATED",
                             trace_id  |-> trace_id,
                             source    |-> Get(origin, "source_id", "unknown"),
                             modality  |-> Get(origin, "modality", "text"),
                             timestamp |-> created_at ] >> ]

\* the table with one more edge, out of INVALID
allowed_transitions_extra ==
    [ CREATED   |-> {"ACTIVE", "BLOCKED"},
      ACTIVE    |-> {"BLOCKED", "COMPLETED"},
      BLOCKED   |-> {"INVALID"},
      COMPLETED |-> {"ARCHIVED"},
      INVALID   |-> {"ARCHIVED"} ]

\* the table of TraceManager.transition_trace
allowed_transitions ==
    [ CREATED   |-> {"ACTIVE", "BLOCKED"},
      ACTIVE    |-> {"BLOCKED", "COMPLETED"},
      BLOCKED   |-> {"INVALID"},
      COMPLETED |-> {"ARCHIVED"} ]

\* the validation without its second check: any target is accepted
TransitionRaisesSourceOnly(trace, new_state) ==
    trace.state \notin DOMAIN allowed_transitions

\* the two validation checks of transition_trace: TRUE when it raises ValueError
TransitionRaises(trace, new_state) ==
    \/ trace.state \notin DOMAIN allowed_transitions
    \/ new_state \notin Get(allowed_transitions, trace.state, {})

\* the log entry transition_trace builds; event_data is None or Some(dict)
NewLogEntry(trace, new_state, reason, event_data, ts) ==
    LET entry == [ event     |-> "TRACE_" \o new_state,
                   trace_id  |-> trace.trace_id,
                   timestamp |-> ts,
                   reason    |-> reason ]
    IN  IF event_data # None /\ DOMAIN event_data[1] # {}
        THEN Update(entry, event_data[1])
        ELSE entry

\* closed_at set on completion only
DetermineClosedAtOnCompletion(trace, new_state, tc) ==
    IF new_state = "COMPLETED" THEN Some(tc) ELSE trace.closed_at

\* closed_at as transition_trace determines it; tc is the reading of time.time()
DetermineClosedAt(trace, new_state, tc) ==
    IF new_state \in {"BLOCKED", "COMPLETED", "INVALID"}
    THEN Some(tc)
    ELSE trace.closed_at

\* the Trace value transition_trace returns when it does not raise
NewTrace(trace, new_state, reason, event_data, ts, tc) ==
    [ trace_id      |-> trace.trace_id,
      state         |-> new_state,
      created_at    |-> trace.created_at,
      closed_at     |-> DetermineClosedAt(trace, new_state, tc),
      origin        |-> trace.origin,
      context       |-> trace.context,
      lifecycle_log |-> trace.lifecycle_log
                          \o << NewLogEntry(trace, new_state, reason, event_data, ts) >> ]

\* TraceManager.transition_trace: what the caller gets
transition_trace(trace, new_state, reason, event_data, ts, tc) ==
    IF TransitionRaises(trace, new_state)
    THEN [raised |-> TRUE, returned |-> None]
    ELSE [raised |-> FALSE,
          returned |-> Some(NewTrace(trace, new_state, reason, event_data, ts, tc))]

\* a transition that appends the new entry to the input's own list
InputAfterAppending(trace, new_state, reason, event_data, ts) ==
    IF TransitionRaises(trace, new_state) THEN trace
    ELSE [trace EXCEPT !.lifecycle_log =
                           @ \o << NewLogEntry(trace, new_state, reason, event_data, ts) >>]

\* the Trace object given to transition_trace, as it is after the call: the
\* class is frozen and no field is assigned, "trace.lifecycle_log + [entry]"
\* builds a new list, and update() is called on the new entry only
InputAfter(trace, new_state, reason, event_data, ts) == trace

\* the guard of TraceManager.close_trace: TRUE when it raises ValueError itself
CloseRaises(trace) == trace.state \notin {"ACTIVE", "CREATED"}

\* state_map.get(reason, "COMPLETED") of close_trace
CloseState(reason) ==
    Get([COMPLETED |-> "COMPLETED", BLOCKED |-> "BLOCKED", INVALID |-> "INVALID"],
        reason, "COMPLETED")

\* TraceManager.close_trace: what the caller gets
close_trace(trace, reason, ts, tc) ==
    IF CloseRaises(trace)
    THEN [raised |-> TRUE, returned |-> None]
    ELSE transition_trace(trace, CloseState(reason), reason, None, ts, tc)

-----------------------------------------------------------------------------
(* Admission gate: gate/gate_policy.py, bridge/kernel_bridge.py,             *)
(* gate/decision_gate.py, gate/gate_trace.py, gate/gatecore.py               *)
(*                                                                           *)
(* The fields of an EnergeticState and the thresholds on them are in         *)
(* millionths. The entries of an E_mu history are in hundredths; the trend   *)
(* and the variance computed from them are exact fractions [num, den].       *)

\* GatePolicy.__init__: the configuration used when none is given
DefaultPolicy ==
    [ H_threshold       |-> 850000,
      D_traj_threshold  |-> 700000,
      E_mu_restrict_min |-> -100000000,
      E_mu_restrict_max |-> 100000000 ]

\* the configuration the tests of the gate pass to GatePolicy
TestPolicy ==
    [ H_threshold      |-> 850000,
      D_traj_threshold |-> 700000,
      S_min            |-> 500000 ]

\* a configuration that carries the rule-failure flag read by the bridge
RuleFailPolicy ==
    [ H_threshold      |-> 850000,
      D_traj_threshold |-> 700000,
      S_min            |-> 500000,
      rule_fail        |-> TRUE ]

\* a configuration with a lower entropy threshold
StrictPolicy ==
    [ H_threshold      |-> 300000,
      D_traj_threshold |-> 700000 ]

Policies == {DefaultPolicy, TestPolicy, RuleFailPolicy, StrictPolicy}

\* GatePolicy.get_params
get_params(policy_config) == policy_config

\* the energetic states handed to the gate
EpsInputs ==
    { [ I |-> 700000, P |-> 600000, S |-> s, H |-> h, A |-> 500000,
        S_a |-> 400000, E_mu |-> e, theta |-> 1200000 ] :
        s \in {0, 800000}, h \in {300000, 850000, 850001}, e \in {10000000, 50000000} }

\* the E_mu histories handed to the gate (None, or a list)
Histories == { None, Some(<<5000, 3000>>) }

\* KernelBridge.DecisionParams as decision_gate fills it from the parameters
DecisionParams(decision_params) ==
    [ rule_fail         |-> IF Get(decision_params, "rule_fail", FALSE) THEN 1 ELSE 0,
      E_mu_restrict_min |-> Get(decision_params, "E_mu_restrict_min", -2147483647),
      E_mu_restrict_max |-> Get(decision_params, "E_mu_restrict_max", 2147483647),
      H_threshold       |-> Get(decision_params, "H_threshold", 850000),
      D_traj_threshold  |-> Get(decision_params, "D_traj_threshold", 700000) ]

\* the external evaluator library.cogman_decision_gate(params, H, D): its return
\* code (0 = ALLOW, 1 = REVIEW, 2 = BLOCK), on the arguments the bridge passes
cogman_decision_gate(c_params, H_current, D_traj_current) ==
    IF c_params.rule_fail # 0 THEN 2
    ELSE IF H_current > c_params.H_threshold THEN 1
    ELSE IF D_traj_current > c_params.D_traj_threshold THEN 1
    ELSE 0

\* verdict_map.get(verdict, "UNKNOWN")
verdict_map(code) ==
    CASE code = 0 -> "ALLOW"
      [] code = 1 -> "REVIEW"
      [] code = 2 -> "BLOCK"
      [] OTHER    -> "UNKNOWN"

\* KernelBridge.decision_gate once the library returned `code`: raises
\* RuntimeError when the library is not loaded, else maps the code to a verdict
decision_gate_returning(lib, code) ==
    IF ~lib
    THEN [raised |-> TRUE, value |-> ""]
    ELSE [raised |-> FALSE, value |-> verdict_map(code)]

\* KernelBridge.decision_gate
decision_gate(lib, decision_params, H_current, D_traj_current) ==
    decision_gate_returning(lib,
        cogman_decision_gate(DecisionParams(decision_params), H_current, D_traj_current))

\* DecisionGate.decide
decide(lib, policy_config, state) ==
    decision_gate(lib, get_params(policy_config), Get(state, "H", 0), Get(state, "D_traj", 0))

RECURSIVE SumSeq(_)
\* sum(history)
SumSeq(h) == IF h = <<>> THEN 0 ELSE h[1] + SumSeq(Tail(h))

RECURSIVE SumSquares(_)
\* sum(x ** 2 for x in history)
SumSquares(h) == IF h = <<>> THEN 0 ELSE h[1] * h[1] + SumSquares(Tail(h))

Zero == [num |-> 0, den |-> 1]

\* GateCore._calculate_trend: (last - first) / length
calculate_trend(history) ==
    IF Len(history) < 2 THEN Zero
    ELSE [num |-> history[Len(history)] - history[1], den |-> Len(history)]

\* GateCore._calculate_variance: sum((x - mean) ** 2) / n with mean = sum / n,
\* which is the fraction (n * sum(x ** 2) - sum(x) ** 2) / n ** 2
calculate_variance(history) ==
    IF Len(history) < 2 THEN Zero
    ELSE LET n == Len(history)
         IN  [num |-> n * SumSquares(history) - SumSeq(history) * SumSeq(history),
              den |-> n * n]

\* GateCore._prepare_metrics
prepare_metrics(eps, E_mu_history) ==
    LET usable == E_mu_history # None /\ E_mu_history[1] # <<>> /\ Len(E_mu_history[1]) >= 2
    IN  [ I |-> eps.I, P |-> eps.P, S |-> eps.S, H |-> eps.H, A |-> eps.A,
          S_a |-> eps.S_a, E_mu |-> eps.E_mu, theta |-> eps.theta,
          D_traj |-> 0,
          T |-> IF usable THEN calculate_trend(E_mu_history[1]) ELSE Zero,
          V |-> IF usable THEN calculate_variance(E_mu_history[1]) ELSE Zero ]

\* GateCore._is_E_mu_caution
is_E_mu_caution(E_mu, cfg) ==
    /\ Get(cfg, "E_mu_caution_min", 15000000) <= E_mu
    /\ E_mu < Get(cfg, "E_mu_caution_max", 30000000)

\* the format {x:.3f}: x (millionths) rounded to thousandths
Fmt3(x) == ToString((x + 500) \div 1000)

\* the entropy test of the REVIEW branch applied to the stability field
ReviewCitesEntropyOnS(eps, cfg) == eps.S > Get(cfg, "H_threshold", 850000)

\* the entropy test of the REVIEW branch of _determine_reason
ReviewCitesEntropy(eps, cfg) == eps.H > Get(cfg, "H_threshold", 850000)

\* GateCore._determine_reason
determine_reason(verdict, eps, metrics, policy_config) ==
    LET cfg == get_params(policy_config)
        H_threshold == Get(cfg, "H_threshold", 850000)
        D_threshold == Get(cfg, "D_traj_threshold", 700000)
        E_mu_restrict_max == Get(cfg, "E_mu_restrict_max", 15000000)
    IN  IF verdict = "BLOCK" THEN
            IF eps.S = 0 THEN "Safety rule failed (S == 0)"
            ELSE IF eps.E_mu < E_mu_restrict_max
            THEN "E_mu in restrict range (E_mu=" \o Fmt3(eps.E_mu) \o " < "
                     \o ToString(E_mu_restrict_max) \o ")"
            ELSE "GateCore blocked (unknown reason)"
        ELSE IF verdict = "REVIEW" THEN
            IF ReviewCitesEntropy(eps, cfg)
            THEN "Entropy above threshold (H=" \o Fmt3(eps.H) \o " > "
                     \o ToString(H_threshold) \o ")"
            ELSE IF Get(metrics, "D_traj", 0) > D_threshold
            THEN "Semantic drift above threshold (D=" \o Fmt3(metrics.D_traj) \o " > "
                     \o ToString(D_threshold) \o ")"
            ELSE IF Get(metrics, "V", Zero).num > Get(cfg, "V_max", 80000) * Get(metrics, "V", Zero).den
            THEN "Variance above threshold (V=" \o ToString(metrics.V.num) \o "/"
                     \o ToString(metrics.V.den) \o ")"
            ELSE IF Get(metrics, "T", Zero).num < 0 /\ is_E_mu_caution(eps.E_mu, cfg)
            THEN "Negative trend AND E_mu in caution range"
            ELSE "GateCore review required"
        ELSE "All metrics within safety bounds"

\* an entry that leaves the reason out
gate_trace_entry_without_reason(decision, state, reason, ts) ==
    [timestamp |-> ts, decision |-> decision, state |-> state, reason |-> ""]

\* GateTrace.trace: the entry appended to GateTrace.traces
gate_trace_entry(decision, state, reason, ts) ==
    [timestamp |-> ts, decision |-> decision, state |-> state, reason |-> reason]

\* GateCore.admit after the call of the decision gate: the result handed to the
\* caller and the decision log after the call; tr and tg are the readings of
\* time.time() for the result and the log
admit_on(verdict, policy_config, log, eps, trace_id, metrics, tr, tg) ==
    IF verdict.raised
    THEN [raised |-> TRUE, result |-> None, traces |-> log]
    ELSE LET reason == determine_reason(verdict.value, eps, metrics, policy_config)
         IN  [ raised |-> FALSE,
               result |-> Some([ verdict   |-> verdict.value,
                                 reason    |-> reason,
                                 metrics   |-> metrics,
                                 trace_id  |-> trace_id,
                                 timestamp |-> tr ]),
               traces |-> Append(log, gate_trace_entry(verdict.value,
                             [ I |-> eps.I, P |-> eps.P, S |-> eps.S, H |-> eps.H,
                               A |-> eps.A, S_a |-> eps.S_a, E_mu |-> eps.E_mu,
                               theta |-> eps.theta ],
                             reason, tg)) ]

\* GateCore.admit
admit(lib, policy_config, log, eps, trace_id, E_mu_history, tr, tg) ==
    LET metrics == prepare_metrics(eps, E_mu_history)
    IN  admit_on(decide(lib, policy_config, metrics), policy_config, log, eps,
                 trace_id, metrics, tr, tg)

-----------------------------------------------------------------------------
(* Admission adapter: runtime/gatecore_adapter.py *)

\* step 4 testing the verdict against the name of the trace state
TransitionForVerdictByStateName(trace, gate_result, ts, tc) ==
    IF gate_result.verdict = "BLOCKED"
    THEN transition_trace(trace, "BLOCKED", gate_result.reason,
                          Some([gate_metrics |-> gate_result.metrics,
                                verdict      |-> gate_result.verdict]), ts, tc)
    ELSE transition_trace(trace, "ACTIVE", "GateCore " \o gate_result.verdict,
                          Some([gate_metrics |-> gate_result.metrics,
                                verdict      |-> gate_result.verdict]), ts, tc)

\* step 4 of admit_with_trace: the transition chosen from the verdict
TransitionForVerdict(trace, gate_result, ts, tc) ==
    IF gate_result.verdict = "BLOCK"
    THEN transition_trace(trace, "BLOCKED", gate_result.reason,
                          Some([gate_metrics |-> gate_result.metrics,
                                verdict      |-> gate_result.verdict]), ts, tc)
    ELSE transition_trace(trace, "ACTIVE", "GateCore " \o gate_result.verdict,
                          Some([gate_metrics |-> gate_result.metrics,
                                verdict      |-> gate_result.verdict]), ts, tc)

\* steps 3 to 5 of admit_with_trace: the trace is moved according to the result
\* of the gate and both are returned. `local` is the adapter's local variable
\* trace when the call ends.
adapter_finish(trace, gate, ts, tc) ==
    IF gate.raised
    THEN [raised |-> TRUE, trace |-> None, result |-> None,
          local |-> Some(trace), traces |-> gate.traces]
    ELSE LET moved == TransitionForVerdict(trace, gate.result[1], ts, tc)
         IN  IF moved.raised
             THEN [raised |-> TRUE, trace |-> None, result |-> None,
                   local |-> Some(trace), traces |-> gate.traces]
             ELSE [raised |-> FALSE, trace |-> moved.returned, result |-> gate.result,
                   local |-> moved.returned, traces |-> gate.traces]

\* GateCoreAdapter.admit_with_trace: t0 is the reading of create_trace, tr and
\* tg those of GateCore.admit, ts and tc those of transition_trace.
admit_with_trace(lib, policy_config, log, eps, origin, context, E_mu_history,
                 id, t0, tr, tg, ts, tc) ==
    LET trace == create_trace(origin, context, id, t0)
    IN  adapter_finish(trace,
            admit(lib, policy_config, log, eps, Some(trace.trace_id), E_mu_history, tr, tg),
            ts, tc)

-----------------------------------------------------------------------------
(* Callers of the gate and of the adapter *)

\* a caller invokes GateCore.admit directly, without a trace
Admit ==
    /\ Len(gate_traces) < MaxAdmits
    /\ \E eps \in EpsInputs, E_mu_history \in Histories, tr \in Readings(clock) :
          \E tg \in Readings(tr) :
             LET gate == admit(library, config, gate_traces, eps, None, E_mu_history, tr, tg)
             IN  /\ gate.raised => (tr = clock /\ tg = clock)
                 /\ gate_traces' = gate.traces
                 /\ admission' = Some([ op |-> "admit", eps |-> eps, history |-> E_mu_history,
                                        raised |-> gate.raised, result |-> gate.result,
                                        trace |-> None, local |-> None ])
                 /\ clock' = tg
    /\ UNCHANGED <<nextId, traceVars, config, library, loopVars>>

\* a caller invokes GateCoreAdapter.admit_with_trace
AdmitWithTrace ==
    /\ Len(gate_traces) < MaxAdmits
    /\ nextId < MaxIds
    /\ \E eps \in EpsInputs, E_mu_history \in Histories, origin \in Origins,
          context \in Contexts, t0 \in Readings(clock) :
          \E tr \in Readings(t0) : \E tg \in Readings(tr) :
          \E ts \in Readings(tg) : \E tc \in Readings(ts) :
             LET out == admit_with_trace(library, config, gate_traces, eps, origin, context,
                                         E_mu_history, Uuid(nextId), t0, tr, tg, ts, tc)
                 closes == ~out.raised /\ out.trace[1].state = "BLOCKED"
             IN  /\ out.raised => (tr = t0 /\ tg = t0 /\ ts = t0 /\ tc = t0)
                 /\ ~closes => tc = ts
                 /\ gate_traces' = out.traces
                 /\ admission' = Some([ op |-> "admit_with_trace", eps |-> eps,
                                        history |-> E_mu_history,
                                        raised |-> out.raised, result |-> out.result,
                                        trace |-> out.trace, local |-> out.local ])
                 /\ pool' = IF out.raised THEN pool ELSE {out.trace[1]}
                 /\ clock' = tc
    /\ nextId' = nextId + 1
    /\ UNCHANGED <<last, config, library, loopVars>>

\* the return codes of the library function, declared with restype c_int:
\* the three verdict codes, a negative error code and a code above them
ReturnCodes == {-1, 0, 1, 2, 3}

\* GateCore.admit called over a library whose function returns any c_int
AdmitReturning ==
    /\ Len(gate_traces) < MaxAdmits
    /\ \E eps \in EpsInputs, E_mu_history \in Histories, code \in ReturnCodes,
          tr \in Readings(clock) :
          \E tg \in Readings(tr) :
             LET gate == admit_on(decision_gate_returning(library, code), config, gate_traces,
                                  eps, None, prepare_metrics(eps, E_mu_history), tr, tg)
             IN  /\ gate.raised => (tr = clock /\ tg = clock)
                 /\ gate_traces' = gate.traces
                 /\ admission' = Some([ op |-> "admit", eps |-> eps, history |-> E_mu_history,
                                        code |-> code,
                                        raised |-> gate.raised, result |-> gate.result,
                                        trace |-> None, local |-> None ])
                 /\ clock' = tg
    /\ UNCHANGED <<nextId, traceVars, config, library, loopVars>>

\* GateCoreAdapter.admit_with_trace called over such a library
AdmitWithTraceReturning ==
    /\ Len(gate_traces) < MaxAdmits
    /\ nextId < MaxIds
    /\ \E eps \in EpsInputs, E_mu_history \in Histories, code \in ReturnCodes,
          origin \in Origins, context \in Contexts, t0 \in Readings(clock) :
          \E tr \in Readings(t0) : \E tg \in Readings(tr) :
          \E ts \in Readings(tg) : \E tc \in Readings(ts) :
             LET trace == create_trace(origin, context, Uuid(nextId), t0)
                 out == adapter_finish(trace,
                            admit_on(decision_gate_returning(library, code), config,
                                     gate_traces, eps, Some(trace.trace_id),
                                     prepare_metrics(eps, E_mu_history), tr, tg),
                            ts, tc)
                 closes == ~out.raised /\ out.trace[1].state = "BLOCKED"
             IN  /\ out.raised => (tr = t0 /\ tg = t0 /\ ts = t0 /\ tc = t0)
                 /\ ~closes => tc = ts
                 /\ gate_traces' = out.traces
                 /\ admission' = Some([ op |-> "admit_with_trace", eps |-> eps,
                                        history |-> E_mu_history, code |-> code,
                                        raised |-> out.raised, result |-> out.result,
                                        trace |-> out.trace, local |-> out.local ])
                 /\ pool' = IF out.raised THEN pool ELSE {out.trace[1]}
                 /\ clock' = tc
    /\ nextId' = nextId + 1
    /\ UNCHANGED <<last, config, library, loopVars>>

-----------------------------------------------------------------------------
(* Callers of the trace API *)

\* reasons a caller passes to transition_trace, reason codes it passes to close_trace
Reasons == {"done"}
ReasonCodes == {"COMPLETED", "BLOCKED", "INVALID", "OTHER"}

\* payloads a caller can pass as event_data
EventData ==
    { None,
      Some([verdict |-> "ALLOW"]),
      Some([event |-> "CUSTOM"]) }

NoCall ==
    [op |-> "none", input |-> None, after |-> None, target |-> "", raised |-> FALSE,
     returned |-> None]

\* the caller rebinds its variable to the returned value: trace = f(trace, ...)
Keep(trace, result) == IF result.raised THEN pool ELSE {result.returned[1]}

CreateTrace ==
    /\ nextId < MaxIds
    /\ \E origin \in Origins, context \in Contexts, t \in Readings(clock) :
          LET trace == create_trace(origin, context, Uuid(nextId), t)
          IN  /\ pool' = {trace}
              /\ last' = [op |-> "create", input |-> None, after |-> None,
                          target |-> "CREATED",
                          raised |-> FALSE, returned |-> Some(trace)]
              /\ clock' = t
    /\ nextId' = nextId + 1
    /\ UNCHANGED <<gateVars, loopVars>>

TransitionTrace ==
    /\ \E trace \in pool, new_state \in States, reason \in Reasons,
          event_data \in EventData, ts \in Readings(clock) :
          \E tc \in Readings(ts) :
             LET result == transition_trace(trace, new_state, reason, event_data, ts, tc)
                 closes == ~result.raised /\ new_state \in {"BLOCKED", "COMPLETED", "INVALID"}
             IN  /\ ~closes => tc = ts
                 /\ pool' = Keep(trace, result)
                 /\ last' = [op |-> "transition", input |-> Some(trace),
                             after |-> Some(InputAfter(trace, new_state, reason,
                                                       event_data, ts)),
                             target |-> new_state, raised |-> result.raised,
                             returned |-> result.returned]
                 /\ clock' = IF result.raised THEN clock ELSE tc
    /\ UNCHANGED <<nextId, gateVars, loopVars>>

CloseTrace ==
    /\ \E trace \in pool, reason \in ReasonCodes, ts \in Readings(clock) :
          \E tc \in Readings(ts) :
             LET result == close_trace(trace, reason, ts, tc)
             IN  /\ result.raised => (ts = clock /\ tc = clock)
                 /\ pool' = Keep(trace, result)
                 /\ last' = [op |-> "close", input |-> Some(trace),
                             after |-> IF CloseRaises(trace) THEN Some(trace)
                                       ELSE Some(InputAfter(trace, CloseState(reason),
                                                            reason, None, ts)),
                             target |-> CloseState(reason), raised |-> result.raised,
                             returned |-> result.returned]
                 /\ clock' = IF result.raised THEN clock ELSE tc
    /\ UNCHANGED <<nextId, gateVars, loopVars>>

-----------------------------------------------------------------------------
(* Error containment: runtime/error_handler.py *)

\* RuntimeErrorHandler.handle_error: the record appended to error_history
error_info(phase, error_type, context, severity, ts) ==
    [ phase      |-> phase,
      error_type |-> error_type,
      severity   |-> severity,
      context    |-> context,
      timestamp  |-> ts ]

\* a result that tells the caller to stop
error_result_stopping(phase, error_type) ==
    [ handled |-> TRUE, phase |-> phase, error_type |-> error_type,
      action |-> "abort_cycle", continue |-> FALSE ]

\* RuntimeErrorHandler.handle_error: the result handed to the caller
error_result(phase, error_type) ==
    [ handled |-> TRUE, phase |-> phase, error_type |-> error_type,
      action |-> "abort_cycle", continue |-> TRUE ]

\* class ErrorSeverity: the value of each member
ErrorSeverity ==
    [ LOW |-> "low", MEDIUM |-> "medium", HIGH |-> "high", CRITICAL |-> "critical" ]

\* the empty dict
EmptyDict == [k \in {} |-> 0]

\* RuntimeErrorHandler.__init__, for a handler no client has called yet
HandlerUnused ==
    /\ handling = None
    /\ handled = 0

\* RuntimeErrorHandler.handle_error on a handler holding `history` and `count`:
\* the count is incremented first; severity.value raises AttributeError for a
\* severity that is not a member of ErrorSeverity, before anything is recorded
handle_error(history, count, phase, error_type, context, severity, ts) ==
    IF severity \notin DOMAIN ErrorSeverity
    THEN [ error_count |-> count + 1, error_history |-> history,
           raised |-> TRUE, returned |-> None ]
    ELSE [ error_count   |-> count + 1,
           error_history |-> Append(history,
                                error_info(phase, error_type,
                                           IF context = None THEN EmptyDict ELSE context[1],
                                           ErrorSeverity[severity], ts)),
           raised        |-> FALSE,
           returned      |-> Some(error_result(phase, error_type)) ]

\* RuntimeErrorHandler._count_errors_by_phase and _count_errors_by_severity: the
\* dict that maps each value of `key` in the history to its number of records
count_errors_by(history, key) ==
    [ v \in {history[i][key] : i \in 1..Len(history)} |->
          Cardinality({i \in 1..Len(history) : history[i][key] = v}) ]

\* history[-10:]
Last10(history) ==
    IF Len(history) <= 10 THEN history
    ELSE SubSeq(history, Len(history) - 9, Len(history))

\* RuntimeErrorHandler.get_error_summary
get_error_summary(history, count) ==
    [ total_errors      |-> count,
      recent_errors     |-> Last10(history),
      error_by_phase    |-> count_errors_by(history, "phase"),
      error_by_severity |-> count_errors_by(history, "severity") ]

\* a clear that forgets the records and keeps the count
clear_history_keeping_count(history, count) ==
    [ error_history |-> <<>>, error_count |-> count ]

\* RuntimeErrorHandler.clear_history
clear_history(history, count) ==
    [ error_history |-> <<>>, error_count |-> 0 ]

\* what the clients of the handler pass: phase names, exception classes, a
\* context or None, and a member of ErrorSeverity
PhaseNames == {"TEST_PHASE", "REASONING"}
ErrorTypes == {"ValueError", "RuntimeError"}
ErrorContexts == {None, Some([test |-> "data"])}

\* number of handle_error calls the client has made
Calls == IF handling = None THEN 0 ELSE handling.seq

\* a client calls handle_error
HandleError ==
    /\ Calls < MaxHandles
    /\ \E phase \in PhaseNames : \E error_type \in ErrorTypes : \E context \in ErrorContexts :
       \E severity \in DOMAIN ErrorSeverity : \E ts \in Readings(clock) :
       \E done \in {handle_error(error_history, error_count, phase, error_type,
                                 context, severity, ts)} :
          /\ error_history' = done.error_history
          /\ error_count' = done.error_count
          /\ clock' = ts
          /\ handling' = [op |-> "handle_error", seq |-> Calls + 1, phase |-> phase,
                          error_type |-> error_type, context |-> context,
                          severity |-> severity, raised |-> done.raised,
                          returned |-> done.returned]
          /\ handled' = handled + 1
    /\ UNCHANGED <<nextId, traceVars, gateVars, running, current_phase, pc, cyc, cycles,
                   modules, pending, routerVars, stopped, postVars>>

\* a client calls clear_history
ClearHistory ==
    /\ \E done \in {clear_history(error_history, error_count)} :
          /\ error_history' = done.error_history
          /\ error_count' = done.error_count
    /\ handling' = [op |-> "clear_history", seq |-> Calls, phase |-> "",
                    error_type |-> "", context |-> None, severity |-> "",
                    raised |-> FALSE, returned |-> None]
    /\ handled' = 0
    /\ UNCHANGED <<clock, nextId, traceVars, gateVars, running, current_phase, pc, cyc,
                   cycles, modules, pending, routerVars, stopped, postVars>>

-----------------------------------------------------------------------------
(* Post-processing: runtime/post_processor.py *)
(*                                                                           *)
(* post_log is the order in which things happened to the work items: "put"   *)
(* on the queue, "start" when the worker takes one, "files" or "failed" for   *)
(* _process_sync, "consolidated" for _do_memory_consolidation, "raised" for   *)
(* an exception that reaches the worker's loop, "finish" at task_done.       *)

\* a loop constructed without a PostProcessor
PostProcessorAbsent ==
    /\ post_processor = "none"
    /\ async_queue = <<>>
    /\ unfinished_tasks = 0
    /\ worker = [pc |-> "none", item |-> None]
    /\ post_log = <<>>
    /\ joiner = [pc |-> "idle", before |-> <<>>]

\* PostProcessor.__init__: with enable_async the queue is created and the worker
\* thread started
PostProcessorInit(enable_async) ==
    /\ post_processor = (IF enable_async THEN "async" ELSE "sync")
    /\ async_queue = <<>>
    /\ unfinished_tasks = 0
    /\ worker = [pc |-> IF enable_async THEN "get" ELSE "none", item |-> None]
    /\ post_log = <<>>
    /\ joiner = [pc |-> "idle", before |-> <<>>]

\* the PostProcessInput of a work item, with the number of states of its
\* trajectory
PostProcessInput(trace_id, ts, states) ==
    [trace_id |-> trace_id, timestamp |-> ts, states |-> states]

\* an entry of post_log
Event(kind, operation, data) ==
    [event |-> kind, operation |-> operation, trace_id |-> data.trace_id]

\* a put that places the item at the head of the queue
put_first(queue, unfinished, item) ==
    [queue |-> <<item>> \o queue, unfinished |-> unfinished + 1]

\* Queue.put on the unbounded queue
put(queue, unfinished, item) ==
    [queue |-> Append(queue, item), unfinished |-> unfinished + 1]

\* a join that returns as soon as the queue is empty
join_ready_on_empty(queue, unfinished) == queue = <<>>

\* Queue.join: the condition it waits for
join_ready(queue, unfinished) == unfinished = 0

\* _check_consolidation_needed
check_consolidation_needed(data) == data.states > 1

\* _do_memory_consolidation: the need is checked and logged
do_memory_consolidation(log, data) ==
    Append(log, [event |-> IF check_consolidation_needed(data)
                           THEN "consolidated" ELSE "not_needed",
                 operation |-> "consolidation", trace_id |-> data.trace_id])

\* _trigger_memory_consolidation
trigger_memory_consolidation(mode, queue, unfinished, log, data) ==
    IF mode = "async"
    THEN LET q == put(queue, unfinished, [operation |-> "consolidation", data |-> data])
         IN  [queue |-> q.queue, unfinished |-> q.unfinished,
              log |-> Append(log, Event("put", "consolidation", data))]
    ELSE [queue |-> queue, unfinished |-> unfinished,
          log |-> do_memory_consolidation(log, data)]

\* _process_sync: the log, the audit trail and the metrics are written and the
\* consolidation is triggered; an exception on the way (fails) is logged and
\* ends the work on the item
process_sync(mode, queue, unfinished, log, data, fails) ==
    IF fails
    THEN [queue |-> queue, unfinished |-> unfinished,
          log |-> Append(log, Event("failed", "process", data))]
    ELSE trigger_memory_consolidation(mode, queue, unfinished,
                                      Append(log, Event("files", "process", data)), data)

\* a process whose queue holds one item at most and that does not wait for room
post_processor_process_bounded(mode, queue, unfinished, log, trace_id, ts, fails) ==
    LET input_data == PostProcessInput(trace_id, ts, 0)
    IN  IF mode = "async"
        THEN IF queue # <<>>
             THEN [raised |-> TRUE, queue |-> queue, unfinished |-> unfinished, log |-> log]
             ELSE LET q == put(queue, unfinished,
                               [operation |-> "process", data |-> input_data])
                  IN  [raised |-> FALSE, queue |-> q.queue, unfinished |-> q.unfinished,
                       log |-> Append(log, Event("put", "process", input_data))]
        ELSE LET done == process_sync(mode, queue, unfinished, log, input_data, fails)
             IN  [raised |-> FALSE, queue |-> done.queue, unfinished |-> done.unfinished,
                  log |-> done.log]

\* PostProcessor.process for a trajectory of the loop (which has no states): the
\* item is put on the unbounded queue, or handled at once without one
post_processor_process(mode, queue, unfinished, log, trace_id, ts, fails) ==
    LET input_data == PostProcessInput(trace_id, ts, 0)
    IN  IF mode = "async"
        THEN LET q == put(queue, unfinished, [operation |-> "process", data |-> input_data])
             IN  [raised |-> FALSE, queue |-> q.queue, unfinished |-> q.unfinished,
                  log |-> Append(log, Event("put", "process", input_data))]
        ELSE LET done == process_sync(mode, queue, unfinished, log, input_data, fails)
             IN  [raised |-> FALSE, queue |-> done.queue, unfinished |-> done.unfinished,
                  log |-> done.log]

\* the items put on the queue and not yet finished: the one the worker holds
\* and those waiting
Unfinished(w, queue) ==
    (IF w.item # None THEN <<w.item[1]>> ELSE <<>>) \o queue

-----------------------------------------------------------------------------
(* Phase sequencer: runtime/main_loop.py *)

\* class Phase, in the order of its values 0..9
Phases ==
    << "IDLE", "INPUT_INTAKE", "SENSORY_ADAPTATION", "PERCEPTION_BOUNDARY",
       "TRAJECTORY_ADMISSION", "WORKING_MEMORY_CONTROL", "REASONING", "DECISION",
       "ACTION_OUTPUT", "POST_PROCESSING" >>

\* RuntimeLoop.system_state, set by __init__ and never assigned again
system_state == "running"

\* the RuntimeLoop constructed with every collaborator
AllModules ==
    [gatecore |-> TRUE, trajectory_builder |-> TRUE, others |-> TRUE, wm_controller |-> FALSE]

\* the constructions of RuntimeLoop: each optional collaborator given or None
\* (others: the sensory, perception, reasoning, decision, action and
\* post-processing collaborators and a working-memory controller of the
\* caller's; wm_controller: the working-memory controller given is the
\* WMController of runtime/wm_controller.py)
ModuleSets ==
    { AllModules,
      [gatecore |-> FALSE, trajectory_builder |-> TRUE,  others |-> TRUE,  wm_controller |-> FALSE],
      [gatecore |-> TRUE,  trajectory_builder |-> FALSE, others |-> TRUE,  wm_controller |-> FALSE],
      [gatecore |-> FALSE, trajectory_builder |-> TRUE,  others |-> FALSE, wm_controller |-> FALSE],
      [gatecore |-> FALSE, trajectory_builder |-> FALSE, others |-> FALSE, wm_controller |-> FALSE],
      [gatecore |-> FALSE, trajectory_builder |-> TRUE,  others |-> FALSE, wm_controller |-> TRUE],
      [gatecore |-> FALSE, trajectory_builder |-> FALSE, others |-> TRUE,  wm_controller |-> TRUE] }

\* the locals of _execute_cycle at the start of a cycle, with the list of the
\* handlers invoked so far and the way the cycle ended ("" while in progress)
NewCycle ==
    [ invoked |-> <<>>, ended |-> "", request_id |-> None, eps |-> None,
      trace |-> None, gate_result |-> None, trajectory |-> None, wm_output |-> None ]

\* the fallback state of _phase_perception_boundary
ZeroEps ==
    [ I |-> 0, P |-> 0, S |-> 0, H |-> 0, A |-> 0, S_a |-> 0, E_mu |-> 0, theta |-> 0 ]

\* the states the perception collaborator projects
LoopEps ==
    { [ I |-> 700000, P |-> 600000, S |-> 800000, H |-> h, A |-> 500000,
        S_a |-> 400000, E_mu |-> 50000000, theta |-> 1200000 ] : h \in {300000, 850001} }

\* _phase_idle: the input taken from the queue, None when the system is not
\* running or nothing is queued
phase_idle(state, queued) ==
    IF state # "running" THEN None
    ELSE IF queued > 0 THEN Some("input")
    ELSE None

\* a fallback that blocks: no trajectory is returned
admission_fallback_blocking(mods, eps, origin, context, id, t0, ts) ==
    LET created == create_trace(origin, context, id, t0)
        moved   == transition_trace(created, "BLOCKED", "No GateCore", None, ts, ts)
    IN  [ raised |-> FALSE, trajectory |-> None,
          trace |-> IF mods.trajectory_builder THEN moved.returned ELSE None,
          gate_result |-> None, traces |-> gate_traces, ids |-> 1 ]

\* _phase_trajectory_admission without a GateCore: everything is allowed
admission_fallback(mods, eps, origin, context, id, t0, ts) ==
    LET created == create_trace(origin, context, id, t0)
        moved   == transition_trace(created, "ACTIVE", "No GateCore", None, ts, ts)
    IN  IF mods.trajectory_builder /\ moved.raised
        THEN [ raised |-> TRUE, trajectory |-> None, trace |-> Some(created),
               gate_result |-> None, traces |-> gate_traces, ids |-> 1 ]
        ELSE [ raised |-> FALSE,
               trajectory |-> Some([ trace_id |-> IF mods.trajectory_builder
                                                  THEN moved.returned[1].trace_id ELSE id,
                                     eps |-> eps, verdict |-> "ALLOW", gate_result |-> None,
                                     trace |-> IF mods.trajectory_builder
                                               THEN moved.returned ELSE None ]),
               trace |-> IF mods.trajectory_builder THEN moved.returned ELSE None,
               gate_result |-> None, traces |-> gate_traces, ids |-> 1 ]

\* the test "if gate_result.verdict == 'BLOCK': return None" inverted
AdmissionStopsWrong(gate_result) == gate_result.verdict # "BLOCK"

\* the test "if gate_result.verdict == 'BLOCK': return None" of the handler
AdmissionStops(gate_result) == gate_result.verdict = "BLOCK"

\* _phase_trajectory_admission with a GateCore
admission_gated(mods, lib, policy_config, log, eps, origin, context, id, t0, tr, tg, ts, tc) ==
    LET created == IF mods.trajectory_builder
                   THEN Some(create_trace(origin, context, id, t0)) ELSE None
        gate == admit(lib, policy_config, log, eps,
                      IF created # None THEN Some(created[1].trace_id) ELSE None,
                      None, tr, tg)
    IN  IF gate.raised
        THEN [ raised |-> TRUE, trajectory |-> None, trace |-> created,
               gate_result |-> None, traces |-> gate.traces,
               ids |-> IF created # None THEN 1 ELSE 0 ]
        ELSE LET gate_result == gate.result[1]
                 moved == IF created # None
                          THEN TransitionForVerdict(created[1], gate_result, ts, tc)
                          ELSE [raised |-> FALSE, returned |-> None]
             IN  IF moved.raised
                 THEN [ raised |-> TRUE, trajectory |-> None, trace |-> created,
                        gate_result |-> gate.result, traces |-> gate.traces, ids |-> 1 ]
                 ELSE IF AdmissionStops(gate_result)
                 THEN [ raised |-> FALSE, trajectory |-> None, trace |-> moved.returned,
                        gate_result |-> gate.result, traces |-> gate.traces,
                        ids |-> IF created # None THEN 1 ELSE 0 ]
                 ELSE [ raised |-> FALSE,
                        trajectory |-> Some([ trace_id |-> IF gate_result.trace_id # None
                                                           THEN gate_result.trace_id[1] ELSE id,
                                              eps |-> eps, verdict |-> gate_result.verdict,
                                              gate_result |-> gate.result,
                                              metrics |-> gate_result.metrics,
                                              trace |-> moved.returned ]),
                        trace |-> moved.returned, gate_result |-> gate.result,
                        traces |-> gate.traces, ids |-> 1 ]

\* _phase_trajectory_admission
phase_trajectory_admission(mods, lib, policy_config, log, eps, origin, context,
                           id, t0, tr, tg, ts, tc) ==
    IF ~mods.gatecore
    THEN admission_fallback(mods, eps, origin, context, id, t0, ts)
    ELSE admission_gated(mods, lib, policy_config, log, eps, origin, context,
                         id, t0, tr, tg, ts, tc)

\* the handler of `phase` is invoked: current_phase is set and the call recorded
Invoke(phase) ==
    /\ pc = phase
    /\ current_phase' = phase

\* the statement order of _execute_cycle with one handler call left out
NextPhaseSkipping(phase) ==
    CHOOSE q \in 1..Len(Phases) :
        q > 1 /\ Phases[q - 1] = (IF phase = "REASONING" THEN "DECISION" ELSE phase)

\* the position after the handler of `phase` returned normally
NextPhase(phase) ==
    CHOOSE q \in 1..Len(Phases) : q > 1 /\ Phases[q - 1] = phase

\* the handler returned: the cycle goes on with the next phase
Proceed(phase, locals) ==
    /\ pc' = Phases[NextPhase(phase)]
    /\ cyc' = [locals EXCEPT !.invoked = Append(@, phase)]
    /\ UNCHANGED <<running, error_history, error_count, cycles, modules, routerVars, stopped, errVars>>

\* _execute_cycle returns: run() goes back to the test of its while loop
EndCycle(phase, locals, how) ==
    /\ pc' = "loop"
    /\ cyc' = [locals EXCEPT !.invoked = Append(@, phase), !.ended = how]
    /\ UNCHANGED <<running, error_history, error_count, cycles, modules, routerVars, stopped, errVars>>

\* the except branch of run() that stops the loop
ContainStopping(phase, locals, error_type, t) ==
    /\ \E te \in Readings(t) :
          /\ error_history' = Append(error_history,
                 error_info(phase, error_type, [system_state |-> system_state], "high", te))
          /\ clock' = te
    /\ error_count' = error_count + 1
    /\ pc' = "loop"
    /\ running' = FALSE
    /\ cyc' = [locals EXCEPT !.invoked = Append(@, phase), !.ended = "error"]
    /\ UNCHANGED <<cycles, modules, routerVars, stopped, errVars>>

\* the handler raised: the except branch of run() hands the exception to
\* handle_error with the name of current_phase and continues the loop; t is the
\* last reading of the clock before the exception
Contain(phase, locals, error_type, t) ==
    /\ \E te \in Readings(t) :
          /\ error_history' = Append(error_history,
                 error_info(phase, error_type, [system_state |-> system_state], "high", te))
          /\ clock' = te
    /\ error_count' = error_count + 1
    /\ pc' = "loop"
    /\ cyc' = [locals EXCEPT !.invoked = Append(@, phase), !.ended = "error"]
    /\ UNCHANGED <<running, cycles, modules, routerVars, stopped, errVars>>

\* RuntimeLoop.run up to its while loop
Run ==
    /\ pc = "init"
    /\ running' = TRUE
    /\ pc' = "loop"
    /\ UNCHANGED <<clock, nextId, traceVars, gateVars, current_phase, cyc,
                   error_history, error_count, cycles, modules, routerVars, pending,
                   stopped, errVars, postVars>>

\* the test of "while self.running" and the call of _execute_cycle
LoopTest ==
    /\ pc = "loop"
    /\ IF running
       THEN /\ cycles < MaxCycles
            /\ pc' = "IDLE"
            /\ cycles' = cycles + 1
            /\ cyc' = NewCycle
       ELSE /\ pc' = "returned"
            /\ UNCHANGED <<cycles, cyc>>
    /\ UNCHANGED <<clock, nextId, traceVars, gateVars, running, current_phase,
                   error_history, error_count, modules, routerVars, pending,
                   stopped, errVars, postVars>>

\* RuntimeLoop.stop, called from another thread
Stop ==
    /\ running' = FALSE
    /\ stopped' = TRUE
    /\ UNCHANGED <<clock, nextId, traceVars, gateVars, current_phase, pc, cyc,
                   error_history, error_count, cycles, modules, routerVars, pending,
                   errVars, postVars>>

\* an input is queued for the loop
Submit ==
    /\ pending < MaxPending
    /\ pending' = pending + 1
    /\ UNCHANGED <<clock, nextId, traceVars, gateVars, running, current_phase, pc, cyc,
                   error_history, error_count, cycles, modules, routerVars, stopped,
                   errVars, postVars>>

\* the test "if input_data is None: return" of _execute_cycle left out
IdleStopsNever(input_data) == FALSE

\* the test "if input_data is None: return" of _execute_cycle
IdleStops(input_data) == input_data = None

PhaseIdle ==
    /\ Invoke("IDLE")
    /\ LET input_data == phase_idle(system_state, pending)
       IN  IF IdleStops(input_data)
           THEN /\ EndCycle("IDLE", cyc, "no_input")
                /\ UNCHANGED pending
           ELSE /\ Proceed("IDLE", cyc)
                /\ pending' = pending - 1
    /\ UNCHANGED <<clock, nextId, traceVars, gateVars, postVars>>

PhaseInputIntake ==
    /\ Invoke("INPUT_INTAKE")
    /\ Proceed("INPUT_INTAKE", [cyc EXCEPT !.request_id = Some(Uuid(nextId))])
    /\ nextId' = nextId + 1
    /\ UNCHANGED <<clock, traceVars, gateVars, pending, postVars>>

PhaseSensoryAdaptation ==
    /\ Invoke("SENSORY_ADAPTATION")
    /\ \/ Proceed("SENSORY_ADAPTATION", cyc) /\ UNCHANGED clock
       \/ modules.others /\ Contain("SENSORY_ADAPTATION", cyc, "Exception", clock)
    /\ UNCHANGED <<nextId, traceVars, gateVars, pending, postVars>>

PhasePerceptionBoundary ==
    /\ Invoke("PERCEPTION_BOUNDARY")
    /\ \/ \E eps \in (IF modules.others THEN LoopEps ELSE {ZeroEps}) :
             Proceed("PERCEPTION_BOUNDARY", [cyc EXCEPT !.eps = Some(eps)]) /\ UNCHANGED clock
       \/ modules.others /\ Contain("PERCEPTION_BOUNDARY", cyc, "Exception", clock)
    /\ UNCHANGED <<nextId, traceVars, gateVars, pending, postVars>>

PhaseTrajectoryAdmission ==
    /\ Invoke("TRAJECTORY_ADMISSION")
    /\ \E t0 \in Readings(clock) : \E tr \in Readings(t0) : \E tg \in Readings(tr) :
       \E ts \in Readings(tg) : \E tc \in Readings(ts) :
          LET origin  == [source_id |-> "external", modality |-> "text", adapter |-> "sensory"]
              context == [gate_profile |-> "default", runtime_mode |-> "normal"]
              out == phase_trajectory_admission(modules, library, config, gate_traces,
                         cyc.eps[1], origin, context, Uuid(nextId), t0, tr, tg, ts, tc)
              locals == [cyc EXCEPT !.trace = out.trace, !.gate_result = out.gate_result,
                                    !.trajectory = out.trajectory]
              blocked == out.trace # None /\ out.trace[1].state = "BLOCKED"
          IN  /\ ~modules.trajectory_builder => (t0 = clock /\ ts = tg /\ tc = tg)
              /\ ~modules.gatecore => (tr = t0 /\ tg = t0 /\ tc = ts)
              /\ (out.raised /\ out.gate_result = None) => (tr = t0 /\ tg = t0)
              /\ out.raised => (ts = tg /\ tc = tg)
              /\ ~blocked => tc = ts
              /\ nextId' = nextId + out.ids
              /\ gate_traces' = out.traces
              /\ pool' = IF out.trace # None THEN {out.trace[1]} ELSE pool
              /\ IF out.raised
                 THEN Contain("TRAJECTORY_ADMISSION", locals, "RuntimeError", tc)
                 ELSE IF out.trajectory = None
                 THEN EndCycle("TRAJECTORY_ADMISSION", locals, "blocked") /\ clock' = tc
                 ELSE Proceed("TRAJECTORY_ADMISSION", locals) /\ clock' = tc
    /\ UNCHANGED <<last, config, library, admission, pending, postVars>>

\* the handlers of the phases after admission; each calls a collaborator
LaterPhase(phase) ==
    /\ Invoke(phase)
    /\ \/ Proceed(phase, cyc) /\ UNCHANGED clock
       \/ modules.others /\ Contain(phase, cyc, "Exception", clock)
    /\ UNCHANGED <<nextId, traceVars, gateVars, pending, postVars>>

PhaseDecision == LaterPhase("DECISION")

PhaseActionOutput == LaterPhase("ACTION_OUTPUT")

\* _phase_post_processing: without a PostProcessor the trace is logged (another
\* collaborator given in its place may raise); with one, its process is called
PhasePostProcessing ==
    /\ Invoke("POST_PROCESSING")
    /\ IF post_processor = "none"
       THEN /\ \/ EndCycle("POST_PROCESSING", cyc, "completed") /\ UNCHANGED clock
               \/ modules.others /\ Contain("POST_PROCESSING", cyc, "Exception", clock)
            /\ UNCHANGED postVars
       ELSE \E tp \in Readings(clock) :
            \E fails \in (IF post_processor = "sync" THEN BOOLEAN ELSE {FALSE}) :
            \E done \in {post_processor_process(post_processor, async_queue,
                              unfinished_tasks, post_log, cyc.trajectory[1].trace_id,
                              tp, fails)} :
               /\ async_queue' = done.queue
               /\ unfinished_tasks' = done.unfinished
               /\ post_log' = done.log
               /\ IF done.raised
                  THEN Contain("POST_PROCESSING", cyc, "Full", tp)
                  ELSE EndCycle("POST_PROCESSING", cyc, "completed") /\ clock' = tp
               /\ UNCHANGED <<post_processor, worker, joiner>>
    /\ UNCHANGED <<nextId, traceVars, gateVars, pending>>

\* the worker thread takes the next item: Queue.get on a queue that is not empty
\* (on an empty queue get raises Empty after a second and the loop goes round)
WorkerGet ==
    /\ worker.pc = "get"
    /\ async_queue # <<>>
    /\ worker' = [pc |-> "handle", item |-> Some(Head(async_queue))]
    /\ async_queue' = Tail(async_queue)
    /\ post_log' = Append(post_log, Event("start", Head(async_queue).operation,
                                          Head(async_queue).data))
    /\ UNCHANGED <<clock, nextId, traceVars, gateVars, running, current_phase, pc, cyc,
                   error_history, error_count, cycles, modules, pending, routerVars,
                   stopped, errVars, post_processor, unfinished_tasks, joiner>>

\* the worker thread handles its item: _process_sync, which catches what is
\* raised in it, or _do_memory_consolidation, which catches nothing: an
\* exception raised in it (raises) reaches the except branch of the worker's
\* loop, which logs it and goes round, past the call of task_done
WorkerHandle ==
    /\ worker.pc = "handle"
    /\ LET item == worker.item[1]
       IN  IF item.operation = "process"
           THEN \E fails \in BOOLEAN :
                \E done \in {process_sync(post_processor, async_queue, unfinished_tasks,
                                          post_log, item.data, fails)} :
                   /\ async_queue' = done.queue
                   /\ unfinished_tasks' = done.unfinished
                   /\ post_log' = done.log
                   /\ worker' = [worker EXCEPT !.pc = "task_done"]
           ELSE \E raises \in BOOLEAN :
                   /\ IF raises
                      THEN /\ post_log' = Append(post_log,
                                               Event("raised", "consolidation", item.data))
                           /\ worker' = [pc |-> "get", item |-> None]
                      ELSE /\ post_log' = do_memory_consolidation(post_log, item.data)
                           /\ worker' = [worker EXCEPT !.pc = "task_done"]
                   /\ UNCHANGED <<async_queue, unfinished_tasks>>
    /\ UNCHANGED <<clock, nextId, traceVars, gateVars, running, current_phase, pc, cyc,
                   error_history, error_count, cycles, modules, pending, routerVars,
                   stopped, errVars, post_processor, joiner>>

\* the worker thread calls Queue.task_done and goes round its loop
WorkerTaskDone ==
    /\ worker.pc = "task_done"
    /\ unfinished_tasks' = unfinished_tasks - 1
    /\ post_log' = Append(post_log, Event("finish", worker.item[1].operation,
                                          worker.item[1].data))
    /\ worker' = [pc |-> "get", item |-> None]
    /\ UNCHANGED <<clock, nextId, traceVars, gateVars, running, current_phase, pc, cyc,
                   error_history, error_count, cycles, modules, pending, routerVars,
                   stopped, errVars, post_processor, async_queue, joiner>>

\* a client calls PostProcessor.shutdown: with a queue it joins it, without one
\* it returns; `before` holds the items put on the queue before the call and
\* not yet finished
Shutdown ==
    /\ joiner.pc = "idle"
    /\ post_processor # "none"
    /\ joiner' = [pc |-> IF post_processor = "async" THEN "join" ELSE "returned",
                  before |-> Unfinished(worker, async_queue)]
    /\ UNCHANGED <<clock, nextId, traceVars, gateVars, running, current_phase, pc, cyc,
                   error_history, error_count, cycles, modules, pending, routerVars,
                   stopped, errVars, post_processor, async_queue, unfinished_tasks,
                   worker, post_log>>

\* Queue.join returns to shutdown, which returns to its caller
JoinReturns ==
    /\ joiner.pc = "join"
    /\ join_ready(async_queue, unfinished_tasks)
    /\ joiner' = [joiner EXCEPT !.pc = "returned"]
    /\ UNCHANGED <<clock, nextId, traceVars, gateVars, running, current_phase, pc, cyc,
                   error_history, error_count, cycles, modules, pending, routerVars,
                   stopped, errVars, post_processor, async_queue, unfinished_tasks,
                   worker, post_log>>

-----------------------------------------------------------------------------
(* Working-memory router: runtime/wm_controller.py *)
(*                                                                           *)
(* The fields of an EPS8State, the thresholds and the resonance scores are   *)
(* in millionths. A dict whose keys are not fixed (memory_fields, the scores)*)
(* is the sequence of its items in insertion order.                          *)

\* the names of the memory fields, in the order they are given
FieldNames == <<"episodic", "semantic">>

\* the memory_fields given to WMController: for each name a field that has
\* query_resonance ("field"), an object without that method ("no_method") or
\* None ("none"); or no field at all
FieldSetups ==
    { <<>>,
      << [name |-> "episodic", kind |-> "field"], [name |-> "semantic", kind |-> "field"] >>,
      << [name |-> "episodic", kind |-> "none"],  [name |-> "semantic", kind |-> "no_method"] >> }

\* the config given to WMController: none, or lower thresholds
RouterConfigs == { [budget_max |-> 100000000], [H_max |-> 100000, S_min |-> 400000] }

\* WMController() constructed without arguments
NoRouter == [gatecore |-> FALSE, memory_fields |-> <<>>, config |-> [budget_max |-> 100000000]]

\* the constructions of WMController
RouterSetups ==
    { NoRouter,
      [gatecore |-> FALSE, memory_fields |-> <<>>, config |-> [H_max |-> 100000, S_min |-> 400000]] }
    \cup { [gatecore |-> g, memory_fields |-> f, config |-> [budget_max |-> 100000000]] :
              g \in BOOLEAN, f \in FieldSetups \ {<<>>} }

\* WMController.__init__: the thresholds read from config
H_max(cfg) == Get(cfg, "H_max", 620000)

S_min(cfg) == Get(cfg, "S_min", 500000)

\* the EPS states a trajectory dict carries
RouterStates ==
    { [ I |-> i, P |-> 600000, S |-> st, H |-> h, F |-> 0, A |-> 500000,
        S_a |-> 400000, theta |-> 1200000 ] :
        i \in {500000, 900000}, st \in {400000, 980000}, h \in {100000, 620000, 700000} }

\* the trajectory dicts handed to process, with or without the key "eps"
TrajectoryDicts ==
    { [trace_id |-> "t1", timestamp |-> 0] } \cup
    { [trace_id |-> "t1", timestamp |-> 0, eps |-> e] : e \in RouterStates }

\* what a call of query_resonance on the field `name` does: it raises, or
\* returns a score
QueryOutcomes(name) ==
    { [raises |-> TRUE, score |-> 0] } \cup
    { [raises |-> FALSE, score |-> v] :
        v \in IF name = "episodic" THEN {700000, 900000, 1500000} ELSE {800000, 900000} }

\* the outcome used for a field that is never queried
NoQuery == [raises |-> FALSE, score |-> 0]

\* _create_default_state
create_default_state ==
    [ I |-> 0, P |-> 0, S |-> 0, H |-> 0, F |-> 0, A |-> 0, S_a |-> 0, theta |-> 0 ]

\* _dict_to_trajectory
dict_to_trajectory(traj_dict) ==
    [ states          |-> IF "eps" \in DOMAIN traj_dict THEN <<traj_dict.eps>> ELSE <<>>,
      trace_id        |-> Get(traj_dict, "trace_id", ""),
      source_modality |-> Get(traj_dict, "source_modality", "text"),
      timestamp       |-> traj_dict.timestamp ]

\* resonance_scores.get(name, 0.0)
ScoreOf(scores, name) ==
    IF \E i \in 1..Len(scores) : scores[i].name = name
    THEN scores[CHOOSE i \in 1..Len(scores) : scores[i].name = name].score
    ELSE 0

\* the entropy gate failing already at H equal to the ceiling
EntropyGateFailsAtCeiling(state, cfg) == state.H >= H_max(cfg)

\* the entropy gate of _gate_control fails
EntropyGateFails(state, cfg) == state.H > H_max(cfg)

\* GateCore.evaluate_safety
evaluate_safety(policy_config, eps) ==
    LET S_minimum == Get(get_params(policy_config), "S_min", 500000)
    IN  [pass |-> eps.S >= S_minimum, S |-> eps.S, S_min |-> S_minimum]

\* the local safety check failing already at S equal to the minimum
LocalSafetyFailsAtMinimum(state, cfg) == state.S <= S_min(cfg)

\* the local safety check of _gate_control, used without a GateCore, fails
LocalSafetyFails(state, cfg) == state.S < S_min(cfg)

\* _gate_control
gate_control(r, policy_config, state) ==
    [ entropy |-> ~EntropyGateFails(state, r.config),
      safety  |-> IF r.gatecore
                  THEN evaluate_safety(policy_config, state).pass
                  ELSE ~LocalSafetyFails(state, r.config),
      budget  |-> TRUE ]

\* all(gate_status.values())
AllPass(gate_status) == gate_status.entropy /\ gate_status.safety /\ gate_status.budget

RECURSIVE resonance_loop(_, _, _)
\* the loop of _invoke_memory_resonance over the items of memory_fields:
\* `outcomes` gives what the query of each field does; the result is the
\* scores recorded and the names of the fields queried
resonance_loop(fields, outcomes, acc) ==
    IF fields = <<>> THEN acc
    ELSE LET f == Head(fields)
             o == outcomes[Len(outcomes) - Len(fields) + 1]
         IN  IF f.kind = "none"
             THEN resonance_loop(Tail(fields), outcomes, acc)
             ELSE IF f.kind = "no_method"
             THEN resonance_loop(Tail(fields), outcomes,
                      [acc EXCEPT !.scores = Append(@, [name |-> f.name, score |-> 0])])
             ELSE resonance_loop(Tail(fields), outcomes,
                      [ scores  |-> Append(acc.scores,
                                       [name |-> f.name,
                                        score |-> IF o.raises THEN 0 ELSE o.score]),
                        queried |-> Append(acc.queried, f.name) ])

\* _invoke_memory_resonance
invoke_memory_resonance(fields, outcomes) ==
    resonance_loop(fields, outcomes, [scores |-> <<>>, queried |-> <<>>])

\* modulation_factor of _context_modulation, in hundredths: 1.0, then 1.1 is
\* assigned for a strong episodic resonance, then 1.05 is assigned for a strong
\* semantic resonance, so that the later assignment is the one that stays
modulation_factor(episodic_resonance, semantic_resonance) ==
    IF semantic_resonance > 800000 THEN 105
    ELSE IF episodic_resonance > 700000 THEN 110
    ELSE 100

\* min(x, 1.0)
Min1(x) == IF x < 1000000 THEN x ELSE 1000000

\* _context_modulation
context_modulation(state, resonance_scores) ==
    LET episodic_resonance == ScoreOf(resonance_scores, "episodic")
        semantic_resonance == ScoreOf(resonance_scores, "semantic")
    IN  [ state EXCEPT
            !.I = (state.I * modulation_factor(episodic_resonance, semantic_resonance)) \div 100,
            !.S = Min1(IF semantic_resonance > 800000 THEN (state.S * 105) \div 100
                       ELSE state.S) ]

\* _navigation_decision with the checks of the two resonances exchanged
navigation_decision_semantic_first(state, resonance_scores, modulated_eps8) ==
    IF ScoreOf(resonance_scores, "semantic") > 800000 THEN "RECALL_SN"
    ELSE IF ScoreOf(resonance_scores, "episodic") > 700000 THEN "EXTEND_PATH"
    ELSE IF modulated_eps8.I > 800000 /\ modulated_eps8.S > 700000 THEN "TRIGGER_ACTION"
    ELSE IF modulated_eps8.H < 200000 THEN "ACTIVATE_REFLEX"
    ELSE "CREATE_NEW_SN"

\* _navigation_decision
navigation_decision(state, resonance_scores, modulated_eps8) ==
    IF ScoreOf(resonance_scores, "episodic") > 700000 THEN "EXTEND_PATH"
    ELSE IF ScoreOf(resonance_scores, "semantic") > 800000 THEN "RECALL_SN"
    ELSE IF modulated_eps8.I > 800000 /\ modulated_eps8.S > 700000 THEN "TRIGGER_ACTION"
    ELSE IF modulated_eps8.H < 200000 THEN "ACTIVATE_REFLEX"
    ELSE "CREATE_NEW_SN"

\* the return of the BLOCKED branch with the current state appended to the trajectory
blocked_output_appending(traj, current_state, gate_status, t) ==
    [ trajectory          |-> [traj EXCEPT !.states = Append(@, current_state)],
      navigation_decision |-> "BLOCKED",
      modulated_eps8      |-> current_state,
      resonance_scores    |-> <<>>,
      gate_status         |-> gate_status,
      trace_id            |-> traj.trace_id,
      timestamp           |-> t ]

\* the return of process when a gate failed
blocked_output(traj, current_state, gate_status, t) ==
    [ trajectory          |-> traj,
      navigation_decision |-> "BLOCKED",
      modulated_eps8      |-> current_state,
      resonance_scores    |-> <<>>,
      gate_status         |-> gate_status,
      trace_id            |-> traj.trace_id,
      timestamp           |-> t ]

\* traj.states[-1] if traj.states else self._create_default_state()
current_state_of(traj) ==
    IF traj.states # <<>> THEN traj.states[Len(traj.states)] ELSE create_default_state

\* _context_modulation applied to the scores kept from the call before,
\* completed by those of this call
context_modulation_carrying(state, resonance_scores) ==
    context_modulation(state,
        (IF routing = None THEN <<>> ELSE routing[1].out.resonance_scores)
            \o resonance_scores)

\* STEP 3 of process
modulate(state, resonance_scores) == context_modulation(state, resonance_scores)

\* WMController.process: t1 is the reading of time.time() for the output; the
\* result is the output and the names of the memory fields queried
process(r, policy_config, traj_dict, outcomes, t1) ==
    LET traj          == dict_to_trajectory(traj_dict)
        current_state == current_state_of(traj)
        gate_status   == gate_control(r, policy_config, current_state)
    IN  IF ~AllPass(gate_status)
        THEN [ out     |-> blocked_output(traj, current_state, gate_status, t1),
               queried |-> <<>> ]
        ELSE LET res       == invoke_memory_resonance(r.memory_fields, outcomes)
                 modulated == modulate(current_state, res.scores)
             IN  [ out |-> [ trajectory          |-> [traj EXCEPT !.states = Append(@, modulated)],
                             navigation_decision |-> navigation_decision(current_state,
                                                         res.scores, modulated),
                             modulated_eps8      |-> modulated,
                             resonance_scores    |-> res.scores,
                             gate_status         |-> gate_status,
                             trace_id            |-> traj.trace_id,
                             timestamp           |-> t1 ],
                   queried |-> res.queried ]

\* what the query of field number i can do in a call of process: nothing when
\* a gate fails or the field has no query_resonance
OutcomesOf(fields, passes, i) ==
    IF passes /\ fields[i].kind = "field" THEN QueryOutcomes(fields[i].name) ELSE {NoQuery}

\* what the queries of one call of process can do: an outcome for each field
OutcomeChoices(r, policy_config, traj_dict) ==
    LET passes == AllPass(gate_control(r, policy_config,
                                       current_state_of(dict_to_trajectory(traj_dict))))
        fields == r.memory_fields
    IN  IF fields = <<>> THEN { <<>> }
        ELSE { <<a, b>> : a \in OutcomesOf(fields, passes, 1),
                          b \in OutcomesOf(fields, passes, 2) }

\* a caller invokes WMController.process; the first call is remembered with
\* its inputs and outputs
Process ==
    /\ \E traj_dict \in TrajectoryDicts, t1 \in Readings(clock) :
       \E outcomes \in OutcomeChoices(router, config, traj_dict) :
       \E done \in { process(router, config, traj_dict, outcomes, t1) } :
          /\ routing' = Some([ traj_dict |-> traj_dict, outcomes |-> outcomes,
                               out |-> done.out, queried |-> done.queried ])
          /\ probe' = IF probe # None THEN probe
                      ELSE Some([ state     |-> current_state_of(dict_to_trajectory(traj_dict)),
                                  scores    |-> done.out.resonance_scores,
                                  decision  |-> done.out.navigation_decision,
                                  modulated |-> done.out.modulated_eps8,
                                  timestamp |-> done.out.timestamp ])
          /\ clock' = t1
    /\ UNCHANGED <<nextId, traceVars, gateVars, running, current_phase, pc, cyc,
                   error_history, error_count, cycles, modules, pending, router,
                   stopped, errVars, postVars>>

\* The sequencer's phases that meet the router: runtime/main_loop.py

\* the EPS8State that _dict_to_trajectory builds from the "eps" of the
\* sequencer's trajectory
eps8_of(eps) ==
    [ I |-> eps.I, P |-> eps.P, S |-> eps.S, H |-> eps.H, F |-> Get(eps, "F", 0),
      A |-> eps.A, S_a |-> eps.S_a, theta |-> eps.theta ]

\* a sequencer that ends the cycle when the router's decision is BLOCKED
NavigationStopsOnBlocked(wm_output) == wm_output.navigation_decision = "BLOCKED"

\* _execute_cycle between the calls of _phase_working_memory_control and of
\* _phase_reasoning: wm_output is handed on, no test of it ends the cycle
NavigationStops(wm_output) == FALSE

\* _phase_working_memory_control: without a controller the trajectory is passed
\* through; the WMController's process is called with the trajectory (tt is
\* the reading of the clock for the missing "timestamp", t1 that of the
\* output); a controller of the caller's returns a dict or raises
PhaseWorkingMemoryControl ==
    /\ Invoke("WORKING_MEMORY_CONTROL")
    /\ IF modules.wm_controller
       THEN \E tt \in Readings(clock) : \E t1 \in Readings(tt) :
            \E traj_dict \in {[ trace_id |-> cyc.trajectory[1].trace_id, timestamp |-> tt,
                                eps |-> eps8_of(cyc.trajectory[1].eps) ]} :
            \E outcomes \in OutcomeChoices(router, config, traj_dict) :
            \E done \in {process(router, config, traj_dict, outcomes, t1)} :
            \E locals \in {[cyc EXCEPT !.wm_output =
                               Some([navigation_decision |-> Some(done.out.navigation_decision)])]} :
               /\ IF NavigationStops(done.out)
                  THEN EndCycle("WORKING_MEMORY_CONTROL", locals, "routed")
                  ELSE Proceed("WORKING_MEMORY_CONTROL", locals)
               /\ clock' = t1
       ELSE \/ /\ Proceed("WORKING_MEMORY_CONTROL",
                       [cyc EXCEPT !.wm_output = Some([navigation_decision |-> None])])
               /\ UNCHANGED clock
            \/ modules.others /\ Contain("WORKING_MEMORY_CONTROL", cyc, "Exception", clock)
    /\ UNCHANGED <<nextId, traceVars, gateVars, pending, postVars>>

\* _phase_reasoning: without a reasoning module the fallback is returned; with
\* one, wm_output.get is called first, which a WMControllerOutput does not have
PhaseReasoning ==
    IF modules.wm_controller /\ modules.others
    THEN /\ Invoke("REASONING")
         /\ Contain("REASONING", cyc, "AttributeError", clock)
         /\ UNCHANGED <<nextId, traceVars, gateVars, pending, postVars>>
    ELSE LaterPhase("REASONING")

-----------------------------------------------------------------------------
(* Initial state and specifications *)

Init ==
    /\ clock = 0
    /\ nextId = 0
    /\ pool = {}
    /\ last = NoCall
    /\ gate_traces = <<>>
    /\ config = DefaultPolicy
    /\ library = TRUE
    /\ admission = None
    /\ running = FALSE
    /\ current_phase = "IDLE"
    /\ pc = "init"
    /\ cyc = NewCycle
    /\ error_history = <<>>
    /\ error_count = 0
    /\ cycles = 0
    /\ modules = AllModules
    /\ pending = 0
    /\ router = NoRouter
    /\ routing = None
    /\ probe = None
    /\ stopped = FALSE
    /\ HandlerUnused
    /\ PostProcessorAbsent

\* the gate is constructed with any policy, over a bridge whose library may
\* have failed to load
InitGate ==
    /\ clock = 0
    /\ nextId = 0
    /\ pool = {}
    /\ last = NoCall
    /\ gate_traces = <<>>
    /\ config \in Policies
    /\ library \in BOOLEAN
    /\ admission = None
    /\ running = FALSE
    /\ current_phase = "IDLE"
    /\ pc = "init"
    /\ cyc = NewCycle
    /\ error_history = <<>>
    /\ error_count = 0
    /\ cycles = 0
    /\ modules = AllModules
    /\ pending = 0
    /\ router = NoRouter
    /\ routing = None
    /\ probe = None
    /\ stopped = FALSE
    /\ HandlerUnused
    /\ PostProcessorAbsent

NextGate == Admit \/ AdmitWithTrace

SpecGate == InitGate /\ [][NextGate]_vars

\* the loop is constructed with any set of collaborators; its gate has a policy
\* with or without the rule-failure flag
InitLoop ==
    /\ clock = 0
    /\ nextId = 0
    /\ pool = {}
    /\ last = NoCall
    /\ gate_traces = <<>>
    /\ config \in {TestPolicy, RuleFailPolicy}
    /\ library \in BOOLEAN
    /\ admission = None
    /\ running = FALSE
    /\ current_phase = "IDLE"
    /\ pc = "init"
    /\ cyc = NewCycle
    /\ error_history = <<>>
    /\ error_count = 0
    /\ cycles = 0
    /\ modules \in ModuleSets
    /\ pending = 0
    /\ router = NoRouter
    /\ routing = None
    /\ probe = None
    /\ stopped = FALSE
    /\ HandlerUnused
    /\ PostProcessorAbsent

NextCodes == AdmitReturning \/ AdmitWithTraceReturning

SpecCodes == InitGate /\ [][NextCodes]_vars

\* the router is constructed in any of its ways; its GateCore, if any, has the
\* policy of the tests
InitRouter ==
    /\ clock = 0
    /\ nextId = 0
    /\ pool = {}
    /\ last = NoCall
    /\ gate_traces = <<>>
    /\ config = TestPolicy
    /\ library = TRUE
    /\ admission = None
    /\ running = FALSE
    /\ current_phase = "IDLE"
    /\ pc = "init"
    /\ cyc = NewCycle
    /\ error_history = <<>>
    /\ error_count = 0
    /\ cycles = 0
    /\ modules = AllModules
    /\ pending = 0
    /\ router \in RouterSetups
    /\ routing = None
    /\ probe = None
    /\ stopped = FALSE
    /\ HandlerUnused
    /\ PostProcessorAbsent

NextRouter == Process

SpecRouter == InitRouter /\ [][NextRouter]_vars

NextLoop ==
    \/ Run \/ LoopTest \/ Stop \/ Submit
    \/ PhaseIdle \/ PhaseInputIntake \/ PhaseSensoryAdaptation \/ PhasePerceptionBoundary
    \/ PhaseTrajectoryAdmission \/ PhaseWorkingMemoryControl \/ PhaseReasoning
    \/ PhaseDecision \/ PhaseActionOutput \/ PhasePostProcessing

SpecLoop == InitLoop /\ [][NextLoop]_vars

\* the loop is constructed with all its collaborators and a PostProcessor in
\* either mode
InitPost ==
    /\ clock = 0
    /\ nextId = 0
    /\ pool = {}
    /\ last = NoCall
    /\ gate_traces = <<>>
    /\ config = TestPolicy
    /\ library = TRUE
    /\ admission = None
    /\ running = FALSE
    /\ current_phase = "IDLE"
    /\ pc = "init"
    /\ cyc = NewCycle
    /\ error_history = <<>>
    /\ error_count = 0
    /\ cycles = 0
    /\ modules = AllModules
    /\ pending = 0
    /\ router = NoRouter
    /\ routing = None
    /\ probe = None
    /\ stopped = FALSE
    /\ HandlerUnused
    /\ \E enable_async \in BOOLEAN : PostProcessorInit(enable_async)

NextPost ==
    \/ Run \/ LoopTest \/ Submit
    \/ PhaseIdle \/ PhaseInputIntake \/ PhaseSensoryAdaptation \/ PhasePerceptionBoundary
    \/ PhaseTrajectoryAdmission \/ PhaseWorkingMemoryControl \/ PhaseReasoning
    \/ PhaseDecision \/ PhaseActionOutput \/ PhasePostProcessing
    \/ WorkerGet \/ WorkerHandle \/ WorkerTaskDone \/ Shutdown \/ JoinReturns

SpecPost == InitPost /\ [][NextPost]_vars

NextErrors == HandleError \/ ClearHistory

SpecErrors == Init /\ [][NextErrors]_vars

NextTrace == CreateTrace \/ TransitionTrace \/ CloseTrace

SpecTrace == Init /\ [][NextTrace]_vars

-----------------------------------------------------------------------------
(* Properties of the trace lifecycle *)

\* the six edges of the lifecycle graph
Edge(from, to) ==
    \/ from = "CREATED"   /\ to = "ACTIVE"
    \/ from = "CREATED"   /\ to = "BLOCKED"
    \/ from = "ACTIVE"    /\ to = "BLOCKED"
    \/ from = "ACTIVE"    /\ to = "COMPLETED"
    \/ from = "BLOCKED"   /\ to = "INVALID"
    \/ from = "COMPLETED" /\ to = "ARCHIVED"

LastChanged == last.op \in {"transition", "close"} /\ ~last.raised

\* C1: every successful state change made by transition_trace or close_trace
\* is one of the six edges, and every call on an INVALID or ARCHIVED trace fails.
C1_OnlySixEdges ==
    /\ LastChanged => Edge(last.input[1].state, last.returned[1].state)
    /\ (last.op \in {"transition", "close"} /\ last.input[1].state \in {"INVALID", "ARCHIVED"})
          => last.raised

C1_Witness ==
    /\ last.op = "transition" /\ ~last.raised
    /\ last.input[1].state = "COMPLETED"
    /\ last.returned[1].state = "ARCHIVED"

IllegalTransition ==
    /\ last.op = "transition"
    /\ ~Edge(last.input[1].state, last.target)

\* C2 as stated: a transition to a target outside the allowed edges fails and
\* hands the input trace back to the caller.
C2_ReturnsOriginal ==
    IllegalTransition => (last.raised /\ last.returned = last.input)

\* C2 amended: a transition to a target outside the allowed edges raises, so
\* nothing is returned; the caller still holds the input trace, unchanged, and
\* no new trace value exists.
C2_RaisesAndLeavesInput ==
    IllegalTransition => (last.raised /\ last.returned = None /\ pool = {last.input[1]})

C2_Witness ==
    /\ IllegalTransition
    /\ last.input[1].state = "CREATED" /\ last.target = "COMPLETED"

\* C3: the log of a created trace is the single entry TRACE_CREATED, and the
\* log of a successfully transitioned trace is the input log followed by one
\* entry named TRACE_<target>.
C3_LogAppendOnly ==
    /\ last.op = "create" =>
          /\ Len(last.returned[1].lifecycle_log) = 1
          /\ last.returned[1].lifecycle_log[1].event = "TRACE_CREATED"
    /\ LastChanged =>
          LET old == last.input[1].lifecycle_log
              new == last.returned[1].lifecycle_log
          IN  /\ Len(new) = Len(old) + 1
              /\ SubSeq(new, 1, Len(old)) = old
              /\ new[Len(new)].event = "TRACE_" \o last.returned[1].state

\* C4: a successful transition changes closed_at iff the target is BLOCKED,
\* COMPLETED or INVALID and closed_at was unset; a set closed_at keeps its value.
C4_ClosedAtSetOnce ==
    LastChanged =>
        LET old == last.input[1].closed_at
            new == last.returned[1].closed_at
        IN  /\ (new # old) <=>
                  (last.returned[1].state \in {"BLOCKED", "COMPLETED", "INVALID"} /\ old = None)
            /\ old # None => new = old

-----------------------------------------------------------------------------
(* Properties of the admission gate and of the adapter *)

\* s contains the word w
Contains(s, w) == \E i \in 1..(Len(s) - Len(w) + 1) : SubSeq(s, i, i + Len(w) - 1) = w

Returned(op) == admission # None /\ admission[1].op = op /\ ~admission[1].raised

\* the last call of admit or admit_with_trace returned a verdict
Admitted == admission # None /\ ~admission[1].raised

C6_ZeroStabilityBlocks ==
    (Admitted /\ admission[1].eps.S = 0) => admission[1].result[1].verdict = "BLOCK"

\* no BLOCK rule matches: the rule-failure flag is unset, S is not 0 and E_mu is
\* not below the restrict-band ceiling
NoBlockRule(eps) ==
    /\ ~Get(config, "rule_fail", FALSE)
    /\ eps.S # 0
    /\ eps.E_mu >= Get(config, "E_mu_restrict_max", 15000000)

-----------------------------------------------------------------------------
(* Properties of the phase sequencer *)

IsPrefix(s, t) == Len(s) <= Len(t) /\ s = SubSeq(t, 1, Len(s))

TenPhases ==
    << "IDLE", "INPUT_INTAKE", "SENSORY_ADAPTATION", "PERCEPTION_BOUNDARY",
       "TRAJECTORY_ADMISSION", "WORKING_MEMORY_CONTROL", "REASONING", "DECISION",
       "ACTION_OUTPUT", "POST_PROCESSING" >>

BlockStep ==
    /\ pc = "TRAJECTORY_ADMISSION"
    /\ cyc'.gate_result # None
    /\ cyc'.gate_result[1].verdict = "BLOCK"

FaultStep == cyc.ended = "" /\ cyc'.ended = "error"

-----------------------------------------------------------------------------
(* Properties of the idle phase *)

\* the IDLE handler returns while nothing is queued
IdleStep == pc = "IDLE" /\ pending = 0 /\ pc' # pc

-----------------------------------------------------------------------------
(* Properties of the verdict *)

\* the three verdicts
Verdicts == {"ALLOW", "REVIEW", "BLOCK"}

\* C12: the verdict returned by admit and by admit_with_trace, the one in the
\* decision log and the one recorded in the trace are each ALLOW, REVIEW or
\* BLOCK, whatever code the evaluator returned.
C12_VerdictOneOfThree ==
    Admitted =>
        /\ admission[1].result[1].verdict \in Verdicts
        /\ gate_traces[Len(gate_traces)].decision \in Verdicts
        /\ admission[1].trace # None =>
              LET log == admission[1].trace[1].lifecycle_log
              IN  log[Len(log)].verdict \in Verdicts

\* the variance of the history exceeds the configured ceiling, or its trend is
\* negative while E_mu lies in the caution band
HistoryAsksReview(eps, metrics) ==
    \/ metrics.V.num > Get(config, "V_max", 80000) * metrics.V.den
    \/ metrics.T.num < 0 /\ is_E_mu_caution(eps.E_mu, config)

\* C13: for a state that matches no BLOCK rule, whose entropy and drift do not
\* exceed their thresholds, admit returns REVIEW when the variance of the
\* history exceeds the ceiling or the trend is negative with E_mu in the
\* caution band, and ALLOW otherwise.
C13_HistoryDecides ==
    (Admitted /\ NoBlockRule(admission[1].eps)
              /\ admission[1].eps.H <= Get(config, "H_threshold", 850000)
              /\ admission[1].result[1].metrics.D_traj <= Get(config, "D_traj_threshold", 700000)) =>
        LET result == admission[1].result[1]
        IN  result.verdict = IF HistoryAsksReview(admission[1].eps, result.metrics)
                             THEN "REVIEW" ELSE "ALLOW"

\* the reason says that the safety rule failed
CitesSafetyRule(reason) ==
    Contains(reason, "Safety rule failed") \/ Contains(reason, "safety rule failed")

\* C14: the reason names the first rule that produced the verdict: a BLOCK of
\* a state with the rule-failure flag set or S = 0 says that the safety rule
\* failed, any other BLOCK of a state with E_mu below the restrict-band ceiling
\* cites E_mu, and ALLOW says that all metrics are within safety bounds.
C14_ReasonNamesFirstRule ==
    Admitted =>
        LET eps    == admission[1].eps
            result == admission[1].result[1]
            first  == Get(config, "rule_fail", FALSE) \/ eps.S = 0
        IN  /\ (result.verdict = "BLOCK" /\ first) => CitesSafetyRule(result.reason)
            /\ (result.verdict = "BLOCK" /\ ~first
                    /\ eps.E_mu < Get(config, "E_mu_restrict_max", 15000000)) =>
                  Contains(result.reason, "E_mu")
            /\ result.verdict = "ALLOW" =>
                  Contains(result.reason, "ll metrics within safety bounds")

-----------------------------------------------------------------------------
(* Properties of the working-memory router *)

\* the state the last call of process worked on, and its output
RoutedState == current_state_of(dict_to_trajectory(routing[1].traj_dict))

RoutedOut == routing[1].out

\* the safety gate fails for the state: S is below the minimum of the GateCore's
\* policy, or of the router's own config when it has no GateCore
SafetyFails(state) ==
    IF router.gatecore THEN state.S < Get(config, "S_min", 500000)
    ELSE state.S < S_min(router.config)

\* the last call of process passed the three gates
GatePassed == routing # None /\ AllPass(RoutedOut.gate_status)

\* the last call of process failed a gate
GateFailed == routing # None /\ ~AllPass(RoutedOut.gate_status)

\* C15: the router returns BLOCKED iff H is above the configured ceiling or the
\* safety gate fails; H equal to the ceiling passes the entropy gate, and the
\* budget gate is reported as passed for every state.
C15_BlocksOnEntropyOrSafety ==
    routing # None =>
        /\ (RoutedOut.navigation_decision = "BLOCKED")
              <=> (RoutedState.H > H_max(router.config) \/ SafetyFails(RoutedState))
        /\ RoutedOut.gate_status.entropy <=> (RoutedState.H <= H_max(router.config))
        /\ RoutedOut.gate_status.safety <=> ~SafetyFails(RoutedState)
        /\ RoutedOut.gate_status.budget

\* a state with H equal to the ceiling was routed
C15_Witness ==
    /\ routing # None
    /\ RoutedState.H = H_max(router.config)
    /\ ~SafetyFails(RoutedState)
    /\ RoutedOut.navigation_decision # "BLOCKED"

\* C16: when a gate fails the router returns BLOCKED with the state it was
\* given, no scores and the trajectory it was given; no memory field is queried.
C16_BlockedLeavesAllUntouched ==
    GateFailed =>
        /\ RoutedOut.navigation_decision = "BLOCKED"
        /\ RoutedOut.modulated_eps8 = RoutedState
        /\ RoutedOut.resonance_scores = <<>>
        /\ routing[1].queried = <<>>
        /\ RoutedOut.trajectory = dict_to_trajectory(routing[1].traj_dict)

\* a router with memory fields that can be queried blocked a state
C16_Witness ==
    /\ GateFailed
    /\ \E i \in 1..Len(router.memory_fields) : router.memory_fields[i].kind = "field"
    /\ "eps" \in DOMAIN routing[1].traj_dict

\* the six navigation labels
NavigationDecisions ==
    {"CREATE_NEW_SN", "EXTEND_PATH", "RECALL_SN", "TRIGGER_ACTION", "ACTIVATE_REFLEX", "BLOCKED"}

\* C17: when the gate passes the decision is that of the first matching rule:
\* episodic resonance > 0.7, semantic resonance > 0.8, modulated I > 0.8 with
\* modulated S > 0.7, modulated H < 0.2, else the default; every decision is
\* one of the six labels.
C17_NavigationPrecedence ==
    /\ routing # None => RoutedOut.navigation_decision \in NavigationDecisions
    /\ GatePassed =>
          LET episodic == ScoreOf(RoutedOut.resonance_scores, "episodic")
              semantic == ScoreOf(RoutedOut.resonance_scores, "semantic")
              m        == RoutedOut.modulated_eps8
              decision == RoutedOut.navigation_decision
          IN  /\ episodic > 700000 => decision = "EXTEND_PATH"
              /\ (episodic <= 700000 /\ semantic > 800000) => decision = "RECALL_SN"
              /\ (episodic <= 700000 /\ semantic <= 800000
                     /\ m.I > 800000 /\ m.S > 700000) => decision = "TRIGGER_ACTION"
              /\ (episodic <= 700000 /\ semantic <= 800000
                     /\ ~(m.I > 800000 /\ m.S > 700000) /\ m.H < 200000) =>
                    decision = "ACTIVATE_REFLEX"
              /\ (episodic <= 700000 /\ semantic <= 800000
                     /\ ~(m.I > 800000 /\ m.S > 700000) /\ ~(m.H < 200000)) =>
                    decision = "CREATE_NEW_SN"

\* both resonances were strong and the episodic one decided
C17_Witness ==
    /\ GatePassed
    /\ ScoreOf(RoutedOut.resonance_scores, "episodic") > 700000
    /\ ScoreOf(RoutedOut.resonance_scores, "semantic") > 800000
    /\ RoutedOut.navigation_decision = "EXTEND_PATH"

\* C18: the intensity is scaled by 1.10 when the episodic resonance is above
\* 0.7, else by 1.05 when the semantic resonance is above 0.8, else unchanged.
C18_OneIntensityBonus ==
    GatePassed =>
        LET episodic == ScoreOf(RoutedOut.resonance_scores, "episodic")
            semantic == ScoreOf(RoutedOut.resonance_scores, "semantic")
        IN  RoutedOut.modulated_eps8.I * 100 =
                RoutedState.I * (IF episodic > 700000 THEN 110
                                 ELSE IF semantic > 800000 THEN 105 ELSE 100)

\* C19: when the gate passes, every configured memory field has a score in the
\* returned set, which is the score the field returned if that lies in [0,1]
\* and 0.0 otherwise, and every score of the set lies in [0,1].
C19_FaultyFieldsScoreZero ==
    GatePassed =>
        LET scores == RoutedOut.resonance_scores
            fields == router.memory_fields
        IN  /\ \A i \in 1..Len(fields) :
                  \E j \in 1..Len(scores) :
                      /\ scores[j].name = fields[i].name
                      /\ LET o == routing[1].outcomes[i]
                             inRange == fields[i].kind = "field" /\ ~o.raises
                                           /\ o.score >= 0 /\ o.score <= 1000000
                         IN  scores[j].score = IF inRange THEN o.score ELSE 0
            /\ \A j \in 1..Len(scores) : scores[j].score >= 0 /\ scores[j].score <= 1000000

C21_OneSafetyDefinition ==
    routing # None =>
        RoutedOut.gate_status.safety =
            evaluate_safety(IF router.gatecore THEN config
                            ELSE [S_min |-> S_min(router.config)], RoutedState).pass

\* a router without a GateCore checked a state with S equal to its minimum
C21_Witness ==
    /\ routing # None
    /\ ~router.gatecore
    /\ RoutedState.S = S_min(router.config)
    /\ RoutedOut.gate_status.safety

-----------------------------------------------------------------------------
(* Properties of error containment *)

\* a client's call of handle_error returned or raised
HandleStep == handling' # handling /\ handling'.op = "handle_error"

\* C22: handle_error never raises and always returns handled = true, action =
\* "abort_cycle", continue = true, with the phase and the exception class it
\* was given, for every phase name, error, context and member of ErrorSeverity;
\* each call appends exactly one record, carrying the call's phase, class,
\* context and the value of its severity
C22_HandleAlwaysAnswers ==
    [][HandleStep =>
          /\ ~handling'.raised
          /\ handling'.returned =
                 Some([ handled |-> TRUE, phase |-> handling'.phase,
                        error_type |-> handling'.error_type,
                        action |-> "abort_cycle", continue |-> TRUE ])
          /\ Len(error_history') = Len(error_history) + 1
          /\ SubSeq(error_history', 1, Len(error_history)) = error_history
          /\ LET record == error_history'[Len(error_history')]
             IN  /\ record.phase = handling'.phase
                 /\ record.error_type = handling'.error_type
                 /\ record.severity = ErrorSeverity[handling'.severity]
                 /\ record.context = IF handling'.context = None THEN EmptyDict
                                     ELSE handling'.context[1]]_vars

C22_Witness ==
    /\ handling # None
    /\ handling.op = "handle_error"
    /\ handling.seq = 2
    /\ handling.severity = "CRITICAL"
    /\ handling.context = None
    /\ Len(error_history) = 2

\* C23: no operation of the handler removes or alters a record of the error
\* history: the history before a step is a prefix of the history after it
C23_HistoryAppendOnly ==
    [][/\ Len(error_history') >= Len(error_history)
       /\ SubSeq(error_history', 1, Len(error_history)) = error_history]_vars

RECURSIVE SumOf(_, _)
\* sum(counts.values()) over the keys in `keys`
SumOf(counts, keys) ==
    IF keys = {} THEN 0
    ELSE LET k == CHOOSE x \in keys : TRUE
         IN  counts[k] + SumOf(counts, keys \ {k})

\* C24: error_count equals the number of records of the history, which equals
\* the number of handle_error calls since the last clear; the per-phase and
\* the per-severity counts of the summary each sum to total_errors; after
\* clear_history count and history are empty
C24_CountersMatchHistory ==
    LET summary == get_error_summary(error_history, error_count)
    IN  /\ error_count = Len(error_history)
        /\ Len(error_history) = handled
        /\ summary.total_errors = error_count
        /\ SumOf(summary.error_by_phase, DOMAIN summary.error_by_phase)
               = summary.total_errors
        /\ SumOf(summary.error_by_severity, DOMAIN summary.error_by_severity)
               = summary.total_errors
        /\ (handling # None /\ handling.op = "clear_history") =>
               (error_count = 0 /\ error_history = <<>>)

C24_Witness ==
    /\ handling # None
    /\ handling.op = "handle_error"
    /\ handling.seq = 2
    /\ handled = 1
    /\ error_count = 1
    /\ get_error_summary(error_history, error_count).error_by_phase
           = [v \in {"REASONING"} |-> 1]

-----------------------------------------------------------------------------
(* Properties of stopping the loop *)

\* C25: once stop() has been called the running flag is false from then on,
\* whatever the thread executing run() does afterwards
C25_StopIsFinal == stopped => ~running

-----------------------------------------------------------------------------
(* Properties of post-processing *)

\* the entries of post_log of one kind, in order
EventsOf(kinds) == SelectSeq(post_log, LAMBDA e : e.event \in kinds)

\* the work item an entry of post_log is about
ItemOf(e) == <<e.operation, e.trace_id>>

sequencerVars ==
    <<nextId, traceVars, gateVars, running, current_phase, pc, cyc, error_history,
      error_count, cycles, modules, pending>>

Finished(operation, trace_id) ==
    \E i \in 1..Len(post_log) :
        /\ post_log[i].event = "finish"
        /\ post_log[i].operation = operation
        /\ post_log[i].trace_id = trace_id

\* the handling of a process item has put its consolidation item on the queue
Spawned(trace_id) ==
    \E i \in 1..Len(post_log) :
        /\ post_log[i].event = "put"
        /\ post_log[i].operation = "consolidation"
        /\ post_log[i].trace_id = trace_id

-----------------------------------------------------------------------------
(* Properties of admission in the sequencer *)

-----------------------------------------------------------------------------
(* Properties of the adapter's failures *)

\* C31: when the gate call or the trace transition fails during
\* admit_with_trace, the call does not raise: it returns (None, None)
C31_ErrorsReturnNone ==
    (admission # None /\ admission[1].op = "admit_with_trace" /\ ~library) =>
        /\ ~admission[1].raised
        /\ admission[1].trace = None
        /\ admission[1].result = None

-----------------------------------------------------------------------------
(* Further properties of the trace lifecycle *)

\* C32: close_trace with a reason code behaves as transition_trace to the
\* state the code names, with the code as reason: it raises on the same input
\* traces, and when it returns, it returns the trace transition_trace builds
\* at the same readings of the clock
C32_CloseIsTransition ==
    (last.op = "close" /\ last.target \in {"COMPLETED", "BLOCKED", "INVALID"}) =>
        LET trace == last.input[1]
        IN  /\ last.raised = TransitionRaises(trace, last.target)
            /\ ~last.raised =>
                  LET got    == last.returned[1]
                      entry  == got.lifecycle_log[Len(got.lifecycle_log)]
                  IN  entry.reason = last.target =>
                         last.returned =
                             transition_trace(trace, last.target, last.target, None,
                                              entry.timestamp, got.closed_at[1]).returned

C36_ClosedAtAgreesWithState ==
    \A trace \in pool :
        /\ (trace.closed_at = None) <=> (trace.state \in {"CREATED", "ACTIVE"})
        /\ (trace.closed_at # None) <=>
               (trace.state \in {"BLOCKED", "COMPLETED", "INVALID", "ARCHIVED"})

C36_Witness ==
    \E trace \in pool :
        /\ trace.state = "ARCHIVED"
        /\ trace.closed_at # None
        /\ Len(trace.lifecycle_log) = 4

\* no transition of the trace can succeed
Final(trace) == \A new_state \in States : TransitionRaises(trace, new_state)

\* C37: every trace lifecycle is finite: a trace has undergone three
\* successful transitions at most, so its log holds four entries at most, and
\* a trace on which no further transition can succeed is INVALID or ARCHIVED
C37_LifecycleIsFinite ==
    \A trace \in pool :
        /\ Len(trace.lifecycle_log) <= 4
        /\ Final(trace) <=> trace.state \in {"INVALID", "ARCHIVED"}

C37_Witness ==
    \E trace \in pool :
        /\ trace.state = "INVALID"
        /\ Len(trace.lifecycle_log) = 4
        /\ Final(trace)

-----------------------------------------------------------------------------
(* Further properties of admission *)

\* C34: the trace admit_with_trace created is never left in state CREATED:
\* when the call ends, by returning or by raising, the trace has been moved
\* to ACTIVE or BLOCKED
C34_NoTraceLeftCreated ==
    (admission # None /\ admission[1].op = "admit_with_trace"
        /\ admission[1].local # None) =>
        admission[1].local[1].state \in {"ACTIVE", "BLOCKED"}

\* C35: the admission step moves the trace to ACTIVE only on the verdicts
\* ALLOW and REVIEW; on any other verdict, the one made from an unrecognised
\* return code of the evaluator included, the trace is not activated
C35_OnlyAllowOrReviewActivates ==
    (admission # None /\ admission[1].op = "admit_with_trace" /\ ~admission[1].raised
        /\ admission[1].trace[1].state = "ACTIVE") =>
        admission[1].result[1].verdict \in {"ALLOW", "REVIEW"}

-----------------------------------------------------------------------------
(* Properties of the sequencer and the router *)

\* the router's decision recorded in the cycle's locals is BLOCKED
RoutedBlocked(locals) ==
    /\ locals.wm_output # None
    /\ locals.wm_output[1].navigation_decision = Some("BLOCKED")

\* the phases of a cycle up to the handler number n
PhasesUpTo(n) == SubSeq(Phases, 1, n)

-----------------------------------------------------------------------------
(* Properties of the worker's acknowledgements *)

\* C39: every item the worker takes from the queue is acknowledged exactly
\* once, also when handling it raises: the queue's count of unfinished items is
\* the number of items waiting or held by the worker, so that it returns to
\* zero when the worker has nothing left and the join of shutdown can return
C39_TakenItemsAcknowledged ==
    post_processor = "async" =>
        /\ unfinished_tasks = Len(Unfinished(worker, async_queue))
        /\ (worker.pc = "get" /\ async_queue = <<>>) => join_ready(async_queue, unfinished_tasks)

====
